---- MODULE Spec2Model ----
(***************************************************************************)
(* Job lifecycle engine of 508-workflows: the jobs table (five08.queue),   *)
(* the enqueue path (enqueue_job + DramatiqQueueClient) and the worker     *)
(* runner (five08.worker.actors._run_job).                                 *)
(*                                                                         *)
(* Every SQL statement is one atomic step; what a Python function does     *)
(* between two statements is local to the caller and is folded into the    *)
(* statement that follows it.  A nullable column holds {} for NULL and     *)
(* {v} for the value v.                                                    *)
(***************************************************************************)
EXTENDS Integers, Sequences, FiniteSets, Bags, TLC

\* ---------------------------------------------------------------- bounds
MaxJobs == 2        \* rows the jobs table can hold (uuid4 ids 1..MaxJobs)
MaxTime == 3        \* the clock runs 0..MaxTime
MaxRedeliver == 2   \* deliveries the broker repeats (at-least-once)
MaxRetryNumber == 4 \* retry numbers _compute_retry_delay_seconds is evaluated at
MaxStates == 1      \* OIDC states auth_login_handler generates
MaxSessions == 1    \* session ids auth_callback_handler generates
MaxLinks == 1       \* link tokens auth_discord_link_create_handler generates
MaxCommands == 2    \* Discord commands that call DiscordAuditLogger.log_command

\* ------------------------------------------------------- finite universes
Callers == {"c1", "c2", "c3"}       \* concurrent enqueue_job calls
Runners == {"r1", "r2"}             \* worker threads / worker processes
WorkerNames == {"integrations-worker", "worker-b"}
Keys == {"k1", "k2"}                \* idempotency keys callers construct
JobIds == 1..MaxJobs
Null == {}
Some(v) == {v}

\* fn.__name__ of the functions api.py hands to enqueue_job (a sample: one
\* registered in _HANDLERS, one not)
Fns == {"process_webhook_event", "sync_people_from_crm_job"}

\* actors.py: _HANDLERS
_HANDLERS == {"process_webhook_event", "process_contact_skills_job"}

\* exceptions a handler (or _extract_call_args) can raise: <<type name, message>>
Exceptions == {<<"RuntimeError", "boom">>}

\* queue.py: JobStatus
QUEUED == "queued"
RUNNING == "running"
SUCCEEDED == "succeeded"
FAILED == "failed"
DEAD == "dead"
CANCELED == "canceled"
JobStatus == {QUEUED, RUNNING, SUCCEEDED, FAILED, DEAD, CANCELED}

\* job_is_terminal that forgets canceled
job_is_terminal_without_canceled(status) == status \in {SUCCEEDED, DEAD}

\* queue.py: job_is_terminal
job_is_terminal(status) == status \in {SUCCEEDED, DEAD, CANCELED}

VARIABLES
    now,          \* wall clock, whole seconds
    settings,     \* SharedSettings / WorkerSettings values, fixed at start-up
    worker_name,  \* settings.worker_name of the process each runner belongs to
    jobs,         \* jobs table: job id -> row, or NoRow
    next_id,      \* next unused job id
    broker,       \* bag of messages [job_id, eta] held by the Redis broker
    redelivered,  \* deliveries the broker has repeated so far
    enq,          \* per enqueue_job call: pc and the value returned
    run,          \* per runner: pc and the locals of _run_job
    dispatches,   \* per job id: queue.enqueue calls made by enqueue_job
    trace,        \* per job id: the statuses written to the row, in order
    retries,      \* per job id: the retries mark_job_retry recorded, in order
    tracing,      \* whether trace and retries are being recorded
    calc,         \* last _compute_retry_delay_seconds evaluation, or Null
    req,          \* per caller: the api.py handler call in flight and its response
    ticks,        \* bag of the results _enqueue_full_crm_sync_job has returned
    oidc_states,  \* Redis auth:oidc-state:<state> -> PendingOIDCState
    sessions,     \* Redis auth:session:<session id> -> AuthSession
    discord_links, \* Redis auth:discord-link:<token> -> DiscordLinkGrant
    audit_events, \* bag of the rows insert_audit_event has stored
    web,          \* per client: the auth handler call in flight
    reply,        \* the response an auth handler sent last, and to whom
    issued,       \* how many states, session ids and link tokens were generated
    audit_tasks   \* per Discord command: its log_command call and background task

\* the state of the auth store, the audit sink and the auth handlers
authvars == <<oidc_states, sessions, discord_links, audit_events, web, reply, issued,
              audit_tasks>>

\* the state of the job engine and of the ingest handlers
queuevars == <<settings, worker_name, jobs, next_id, broker, redelivered,
               enq, run, dispatches, trace, retries, tracing, calc, req, ticks>>

vars == <<now, settings, worker_name, jobs, next_id, broker, redelivered,
          enq, run, dispatches, trace, retries, tracing, calc, req, ticks,
          oidc_states, sessions, discord_links, audit_events, web, reply, issued,
          audit_tasks>>

NoRow == [status |-> "absent"]
Exists(store, id) == id \in DOMAIN store /\ store[id] # NoRow

Max(a, b) == IF a >= b THEN a ELSE b
Min(a, b) == IF a <= b THEN a ELSE b

Val(s) == CHOOSE v \in s : TRUE

\* ------------------------------------------------------------- job store
\* queue.py: enqueue_job, `payload = {"args": list(args), "kwargs": kwargs or
\* {}}`: the call the handler of the job type is to be given
CallPayload(job_type) == [args |-> <<"a1">>, kwargs |-> <<>>]

\* queue.py: the column list of the INSERT in create_job_record; locked_at,
\* locked_by and last_error take the table's NULL default
NewRow(job_type, idempotency_key, max_attempts, run_after) ==
    [type |-> job_type, status |-> QUEUED, payload |-> CallPayload(job_type),
     idempotency_key |-> idempotency_key,
     attempts |-> 0, max_attempts |-> max_attempts, run_after |-> run_after,
     locked_at |-> Null, locked_by |-> Null, last_error |-> Null]

\* rows that hold the idempotency key (uq_jobs_idempotency_key; NULL never conflicts)
RowsWithKey(store, key) ==
    {id \in DOMAIN store : Exists(store, id) /\ key # Null
                           /\ store[id].idempotency_key = key}

\* create_job_record with the ON CONFLICT clause and the unique constraint dropped
create_job_record_always_inserts(store, cfg, job_id, job_type, idempotency_key, max_attempts, run_after) ==
    [store |-> [store EXCEPT ![job_id] =
                   NewRow(job_type, idempotency_key,
                          IF max_attempts = Null \/ max_attempts = Some(0)
                          THEN cfg.job_max_attempts ELSE Val(max_attempts),
                          run_after)],
     id |-> job_id, created |-> TRUE]

\* queue.py: create_job_record.  INSERT .. ON CONFLICT (idempotency_key) DO NOTHING
\* RETURNING id, then the SELECT of the existing row.  job_id is the fresh uuid4.
create_job_record(store, cfg, job_id, job_type, idempotency_key, max_attempts, run_after) ==
    LET m == IF max_attempts = Null \/ max_attempts = Some(0)
             THEN cfg.job_max_attempts ELSE Val(max_attempts)
        conflict == RowsWithKey(store, idempotency_key)
    IN IF conflict = {}
       THEN [store |-> [store EXCEPT ![job_id] =
                           NewRow(job_type, idempotency_key, m, run_after)],
             id |-> job_id, created |-> TRUE]
       ELSE [store |-> store, id |-> CHOOSE id \in conflict : TRUE,
             created |-> FALSE]

\* queue.py: get_job (NoRow stands for None)
get_job(store, job_id) == IF Exists(store, job_id) THEN store[job_id] ELSE NoRow

\* queue.py: _mark_job.  One UPDATE .. WHERE id = job_id that sets exactly the
\* columns passed in upd; no other condition on the row.
_mark_job(store, job_id, upd) ==
    IF Exists(store, job_id)
    THEN [store EXCEPT ![job_id] =
            [f \in DOMAIN store[job_id] |->
                IF f \in DOMAIN upd THEN upd[f] ELSE store[job_id][f]]]
    ELSE store

\* queue.py: mark_job_running
mark_job_running(store, job_id, name, t) ==
    _mark_job(store, job_id,
              [status |-> RUNNING, locked_at |-> Some(t), locked_by |-> Some(name),
               run_after |-> Null, last_error |-> Null])

\* queue.py: mark_job_succeeded.  The payload column is written only `if
\* result is not None`, as dict(base_payload or {}) with the key "result"
mark_job_succeeded(store, job_id, result, base_payload) ==
    LET columns == [status |-> SUCCEEDED, locked_at |-> Null, locked_by |-> Null,
                    run_after |-> Null, last_error |-> Null]
        merged_payload == [result |-> Val(result)]
                          @@ (IF base_payload = Null THEN <<>> ELSE Val(base_payload))
    IN _mark_job(store, job_id,
                 IF result # Null THEN columns @@ [payload |-> merged_payload]
                 ELSE columns)

\* mark_job_retry that forgets to clear the lock columns
mark_job_retry_keeps_lock(store, job_id, attempts, run_after, last_error) ==
    _mark_job(store, job_id,
              [status |-> FAILED, attempts |-> attempts, run_after |-> Some(run_after),
               last_error |-> Some(last_error)])

\* queue.py: mark_job_retry
mark_job_retry(store, job_id, attempts, run_after, last_error) ==
    _mark_job(store, job_id,
              [status |-> FAILED, attempts |-> attempts, run_after |-> Some(run_after),
               last_error |-> Some(last_error), locked_at |-> Null, locked_by |-> Null])

\* mark_job_dead that leaves the stored attempts untouched
mark_job_dead_keeps_attempts(store, job_id, attempts, last_error) ==
    _mark_job(store, job_id,
              [status |-> DEAD, run_after |-> Null,
               last_error |-> Some(last_error), locked_at |-> Null, locked_by |-> Null])

\* queue.py: mark_job_dead
mark_job_dead(store, job_id, attempts, last_error) ==
    _mark_job(store, job_id,
              [status |-> DEAD, attempts |-> attempts, run_after |-> Null,
               last_error |-> Some(last_error), locked_at |-> Null, locked_by |-> Null])

\* _compute_retry_delay_seconds without the doubling
_compute_retry_delay_seconds_no_doubling(cfg, attempt) ==
    Min(Max(1, cfg.job_retry_base_seconds), cfg.job_retry_max_seconds)

\* _compute_retry_delay_seconds without the cap
_compute_retry_delay_seconds_uncapped(cfg, attempt) ==
    Max(1, cfg.job_retry_base_seconds) * (2 ^ Max(attempt - 1, 0))

\* actors.py: _compute_retry_delay_seconds
_compute_retry_delay_seconds(cfg, attempt) ==
    LET base == Max(1, cfg.job_retry_base_seconds)
        capped == cfg.job_retry_max_seconds
    IN Min(base * (2 ^ Max(attempt - 1, 0)), capped)

\* actors.py: error = f"{type(exc).__name__}: {exc}"
FormatError(exc) == <<exc[1], ": ", exc[2]>>

\* a message sent without delay has no eta; a delayed one is held until eta
Message(job_id, eta) == [job_id |-> job_id, eta |-> eta]
Deliverable(m, t) == IF m.eta = Null THEN TRUE ELSE Val(m.eta) <= t
Send(b, m) == b (+) SetToBag({m})

\* dispatcher.py: DramatiqQueueClient.enqueue
DramatiqQueueClient_enqueue(b, job_id, run_at, t) ==
    IF run_at = Null THEN Send(b, Message(job_id, Null))
    ELSE IF Val(run_at) - t <= 0 THEN Send(b, Message(job_id, Null))
    ELSE Send(b, Message(job_id, Some(t + (Val(run_at) - t))))

\* the row's status after a write, appended to the job's trace
Logged(tr, store, job_id) ==
    IF tracing /\ Exists(store, job_id)
    THEN [tr EXCEPT ![job_id] = Append(@, store[job_id].status)]
    ELSE tr

\* ------------------------------------------------------------------ inputs
\* settings.py: job_max_attempts, job_retry_base_seconds, job_retry_max_seconds
\* are plain ints read from the environment; the values deployed here
SettingsChoices ==
    [job_max_attempts : {3}, job_retry_base_seconds : {1}, job_retry_max_seconds : {2}]
MaxAttemptsChoices == {Null, Some(1), Some(2)}
KeyChoices == {Null} \cup {Some(k) : k \in Keys}
RunAfterChoices(t) == {Null, Some(t + 1)}

IdleEnq == [pc |-> "start", key |-> Null, id |-> 0, created |-> FALSE, run_after |-> Null]
IdleRun == [pc |-> "idle", job_id |-> 0, attempts |-> 0, max_attempts |-> 0, delay |-> 0]

\* JSON values a request body carries under "id": null or absent, a number,
\* or a string (a sequence of characters; " " is a whitespace character)
JNull == [t |-> "null", v |-> <<>>]
JNumber(digits) == [t |-> "number", v |-> digits]
JStr(chars) == [t |-> "str", v |-> chars]

\* a handler call of api.py: the keys still to enqueue, the response, and the
\* ids of the rows the call has created
IdleReq ==
    [pc |-> "idle", handler |-> "", source |-> "", event |-> JNull, events |-> <<>>,
     keys |-> <<>>, at |-> 0, status |-> 0, job_id |-> 0, made |-> {}]

\* the clients of the auth endpoints: two browsers and the Discord bot
Browsers == {"b1", "b2"}
Bots == {"bot"}
Clients == Browsers \cup Bots

\* an auth handler call: its inputs, the locals it holds across awaits
\* (pending, claims, grant), and its response (status, error detail,
\* Location, Set-Cookie, the session /auth/me returns) with the
\* insert_audit_event calls it made
IdleWeb ==
    [pc |-> "idle", client |-> "", handler |-> "", state |-> Null, cookie |-> Null,
     token |-> Null, pending |-> Null, claims |-> Null, grant |-> Null,
     session |-> Null, status |-> 0, detail |-> "", location |-> Null,
     set_cookie |-> Null, audits |-> <<>>]

\* empty Redis, empty audit_events table, no request in flight
\* a Discord command that has not run: no log_command call, no task
NoTask ==
    [pc |-> "none", actor |-> "", command |-> "", exception |-> FALSE, warnings |-> 0]

AuthIdle ==
    /\ oidc_states = [k \in 1..MaxStates |-> NoRow]
    /\ sessions = [k \in 1..MaxSessions |-> NoRow]
    /\ discord_links = [k \in 1..MaxLinks |-> NoRow]
    /\ audit_events = EmptyBag
    /\ web = [c \in Clients |-> IdleWeb]
    /\ reply = IdleWeb
    /\ issued = [states |-> 0, sessions |-> 0, links |-> 0]
    /\ audit_tasks = [k \in 1..MaxCommands |-> NoTask]

InitCommon ==
    /\ now = 0
    /\ jobs = [id \in JobIds |-> NoRow]
    /\ next_id = 1
    /\ broker = EmptyBag
    /\ redelivered = 0
    /\ enq = [c \in Callers |-> IdleEnq]
    /\ run = [r \in Runners |-> IdleRun]
    /\ dispatches = [id \in JobIds |-> 0]
    /\ trace = [id \in JobIds |-> <<>>]
    /\ retries = [id \in JobIds |-> <<>>]
    /\ calc = Null
    /\ req = [c \in Callers |-> IdleReq]
    /\ ticks = EmptyBag
    /\ AuthIdle

Init ==
    /\ InitCommon
    /\ tracing = FALSE
    /\ settings \in SettingsChoices
    /\ worker_name \in {w \in [Runners -> WorkerNames] : w["r1"] = "integrations-worker"}

\* ----------------------------------------------------------- enqueue path
\* enqueue_job that goes on to the broker call with the INSERT not committed
EnqueueCreate_without_commit(c, fn, key, max_attempts, run_after) ==
    /\ enq[c].pc = "start"
    /\ LET r == create_job_record(jobs, settings, next_id, fn, key, max_attempts, run_after)
       IN /\ r.created => next_id \in JobIds
          /\ jobs' = jobs
          /\ next_id' = IF r.created THEN next_id + 1 ELSE next_id
          /\ trace' = trace
          /\ enq' = [enq EXCEPT ![c] =
                        [pc |-> IF r.created THEN "dispatch" ELSE "done",
                         key |-> key, id |-> r.id, created |-> r.created,
                         run_after |-> run_after]]
    /\ UNCHANGED <<authvars, req, ticks, now, settings, worker_name, broker, redelivered, run,
                   dispatches, retries, tracing, calc>>

\* queue.py: enqueue_job up to and including create_job_record
EnqueueCreate(c, fn, key, max_attempts, run_after) ==
    /\ enq[c].pc = "start"
    /\ LET r == create_job_record(jobs, settings, next_id, fn, key, max_attempts, run_after)
       IN /\ r.created => next_id \in JobIds
          /\ jobs' = r.store
          /\ next_id' = IF r.created THEN next_id + 1 ELSE next_id
          /\ trace' = IF r.created THEN Logged(trace, r.store, r.id) ELSE trace
          /\ enq' = [enq EXCEPT ![c] =
                        [pc |-> IF r.created THEN "dispatch" ELSE "done",
                         key |-> key, id |-> r.id, created |-> r.created,
                         run_after |-> run_after]]
    /\ UNCHANGED <<authvars, req, ticks, now, settings, worker_name, broker, redelivered, run,
                   dispatches, retries, tracing, calc>>

\* queue.py: enqueue_job, `if created: queue.enqueue(job_id, run_at=run_after)`
EnqueueDispatch(c) ==
    /\ enq[c].pc = "dispatch"
    /\ broker' = DramatiqQueueClient_enqueue(broker, enq[c].id, enq[c].run_after, now)
    /\ dispatches' = [dispatches EXCEPT ![enq[c].id] = @ + 1]
    /\ enq' = [enq EXCEPT ![c].pc = "done"]
    /\ UNCHANGED <<authvars, req, ticks, now, settings, worker_name, jobs, next_id, redelivered, run,
                   trace, retries, tracing, calc>>

\* ----------------------------------------------------------- worker runner
\* actors.py: execute_job -> _run_job, from the delivery of message m up to
\* the handler lookup.  `again` = the broker keeps the message and delivers
\* it once more (at-least-once delivery).
RunJobLoad(r, m, again) ==
    /\ run[r].pc = "idle"
    /\ BagIn(m, broker)
    /\ Deliverable(m, now)
    /\ IF again
       THEN /\ redelivered < MaxRedeliver
            /\ redelivered' = redelivered + 1
            /\ broker' = broker
       ELSE /\ redelivered' = redelivered
            /\ broker' = broker (-) SetToBag({m})
    /\ LET job == get_job(jobs, m.job_id)
       IN run' = [run EXCEPT ![r] =
            IF job = NoRow THEN IdleRun
            ELSE IF job_is_terminal(job.status) THEN IdleRun
            ELSE IF job.status = RUNNING /\ job.locked_by # Some(worker_name[r]) THEN IdleRun
            ELSE IF job.type \notin _HANDLERS
                 THEN [IdleRun EXCEPT !.pc = "raised", !.job_id = m.job_id]
            ELSE [pc |-> "claim", job_id |-> m.job_id, attempts |-> job.attempts,
                  max_attempts |-> job.max_attempts, delay |-> 0]]
    /\ UNCHANGED <<authvars, req, ticks, now, settings, worker_name, jobs, next_id, enq,
                   dispatches, trace, retries, tracing, calc>>

\* actors.py: _run_job, `mark_job_running(settings, job_id, worker_name=...)`
RunJobClaim(r) ==
    /\ run[r].pc = "claim"
    /\ jobs' = mark_job_running(jobs, run[r].job_id, worker_name[r], now)
    /\ trace' = Logged(trace, jobs', run[r].job_id)
    /\ run' = [run EXCEPT ![r].pc = "handler"]
    /\ UNCHANGED <<authvars, req, ticks, now, settings, worker_name, next_id, broker, redelivered, enq,
                   dispatches, retries, tracing, calc>>

\* jobs.py: the dict a handler returns for a job of the type
HandlerResult(job_type) == [job_type |-> job_type, outcome |-> "done"]

\* actors.py: _run_job, the handler returned: `handler(*args, **kwargs)` is a
\* statement, its value is dropped, and mark_job_succeeded(settings, job_id)
\* is called with neither result nor base_payload
HandlerReturns(r) ==
    /\ run[r].pc = "handler"
    /\ jobs' = mark_job_succeeded(jobs, run[r].job_id, Null, Null)
    /\ trace' = Logged(trace, jobs', run[r].job_id)
    /\ run' = [run EXCEPT ![r] = IdleRun]
    /\ UNCHANGED <<authvars, req, ticks, now, settings, worker_name, next_id, broker, redelivered, enq,
                   dispatches, retries, tracing, calc>>

\* HandlerRaises that compares next_attempt > max_attempts
HandlerRaises_off_by_one(r, exc) ==
    /\ run[r].pc = "handler"
    /\ LET job_id == run[r].job_id
           next_attempt == run[r].attempts + 1
           error == FormatError(exc)
           delay_seconds == _compute_retry_delay_seconds(settings, next_attempt)
           retry_at == now + delay_seconds
       IN IF next_attempt > run[r].max_attempts
          THEN /\ jobs' = mark_job_dead(jobs, job_id, next_attempt, error)
               /\ run' = [run EXCEPT ![r] = IdleRun]
               /\ retries' = retries
          ELSE /\ jobs' = mark_job_retry(jobs, job_id, next_attempt, retry_at, error)
               /\ run' = [run EXCEPT ![r].pc = "resend", ![r].delay = delay_seconds]
               /\ retries' = IF tracing
                             THEN [retries EXCEPT ![job_id] =
                                     Append(@, [attempt |-> next_attempt,
                                                delay |-> delay_seconds,
                                                at |-> now,
                                                run_after |-> retry_at])]
                             ELSE retries
    /\ trace' = Logged(trace, jobs', run[r].job_id)
    /\ UNCHANGED <<authvars, req, ticks, now, settings, worker_name, next_id, broker, redelivered, enq,
                   dispatches, tracing, calc>>

\* actors.py: _run_job, the `except Exception` branch, and _schedule_retry up
\* to mark_job_retry
HandlerRaises(r, exc) ==
    /\ run[r].pc = "handler"
    /\ LET job_id == run[r].job_id
           next_attempt == run[r].attempts + 1
           error == FormatError(exc)
           delay_seconds == _compute_retry_delay_seconds(settings, next_attempt)
           retry_at == now + delay_seconds
       IN IF next_attempt >= run[r].max_attempts
          THEN /\ jobs' = mark_job_dead(jobs, job_id, next_attempt, error)
               /\ run' = [run EXCEPT ![r] = IdleRun]
               /\ retries' = retries
          ELSE /\ jobs' = mark_job_retry(jobs, job_id, next_attempt, retry_at, error)
               /\ run' = [run EXCEPT ![r].pc = "resend", ![r].delay = delay_seconds]
               /\ retries' = IF tracing
                             THEN [retries EXCEPT ![job_id] =
                                     Append(@, [attempt |-> next_attempt,
                                                delay |-> delay_seconds,
                                                at |-> now,
                                                run_after |-> retry_at])]
                             ELSE retries
    /\ trace' = Logged(trace, jobs', run[r].job_id)
    /\ UNCHANGED <<authvars, req, ticks, now, settings, worker_name, next_id, broker, redelivered, enq,
                   dispatches, tracing, calc>>

\* _schedule_retry that sends nothing to the broker
ScheduleRetrySend_without_send(r) ==
    /\ run[r].pc = "resend"
    /\ run' = [run EXCEPT ![r] = IdleRun]
    /\ UNCHANGED <<authvars, req, ticks, now, settings, worker_name, jobs, next_id, broker, redelivered,
                   enq, dispatches, trace, retries, tracing, calc>>

\* actors.py: _schedule_retry, `execute_job.send_with_options(args, delay=...)`
ScheduleRetrySend(r) ==
    /\ run[r].pc = "resend"
    /\ broker' = Send(broker, Message(run[r].job_id, Some(now + run[r].delay)))
    /\ run' = [run EXCEPT ![r] = IdleRun]
    /\ UNCHANGED <<authvars, req, ticks, now, settings, worker_name, jobs, next_id, redelivered, enq,
                   dispatches, trace, retries, tracing, calc>>

\* actors.py: _run_job raised (`raise ValueError("Unknown job type")`); the
\* actor has max_retries=0, so the broker drops the message
ActorFailed(r) ==
    /\ run[r].pc = "raised"
    /\ run' = [run EXCEPT ![r] = IdleRun]
    /\ UNCHANGED <<authvars, req, ticks, now, settings, worker_name, jobs, next_id, broker, redelivered,
                   enq, dispatches, trace, retries, tracing, calc>>

\* the clock advances
Tick ==
    /\ now < MaxTime
    /\ now' = now + 1
    /\ UNCHANGED <<authvars, req, ticks, settings, worker_name, jobs, next_id, broker, redelivered, enq,
                   run, dispatches, trace, retries, tracing, calc>>

\* concurrent enqueue_job calls of the ingest API: callers pick the key and
\* run_after, never max_attempts (api.py passes none)
Enqueue ==
    \E c \in Callers, key \in KeyChoices, run_after \in RunAfterChoices(now) :
        EnqueueCreate(c, "process_webhook_event", key, Null, run_after)
\* the jobs the worker specifications start from: no key, no run_after
Submit ==
    \E fn \in Fns, max_attempts \in MaxAttemptsChoices :
        EnqueueCreate("c1", fn, Null, max_attempts, Null)
Dispatch == \E c \in Callers : EnqueueDispatch(c)
Load == \E r \in Runners, m \in BagToSet(broker), again \in BOOLEAN : RunJobLoad(r, m, again)
LoadOnce == \E r \in Runners, m \in BagToSet(broker) : RunJobLoad(r, m, FALSE)
Claim == \E r \in Runners : RunJobClaim(r)
Return == \E r \in Runners : HandlerReturns(r)
Raise == \E r \in Runners, exc \in Exceptions : HandlerRaises(r, exc)
Resend == \E r \in Runners : ScheduleRetrySend(r)
Failed == \E r \in Runners : ActorFailed(r)

NextEnqueue ==
    \/ Enqueue
    \/ Dispatch
    \/ Tick

SpecEnqueue == Init /\ [][NextEnqueue]_vars

Next ==
    \/ Submit
    \/ Dispatch
    \/ Load
    \/ Claim
    \/ Return
    \/ Raise
    \/ Resend
    \/ Failed
    \/ Tick

Spec == Init /\ [][Next]_vars

\* an operator outside the program overwrites the status column of a live job
OperatorCancel(job_id) ==
    /\ Exists(jobs, job_id)
    /\ ~job_is_terminal(jobs[job_id].status)
    /\ jobs' = _mark_job(jobs, job_id, [status |-> CANCELED])
    /\ trace' = Logged(trace, jobs', job_id)
    /\ UNCHANGED <<authvars, req, ticks, now, settings, worker_name, next_id, broker, redelivered, enq,
                   run, dispatches, retries, tracing, calc>>

Cancel == \E job_id \in JobIds : OperatorCancel(job_id)

NextCancel ==
    \/ Next
    \/ Cancel

SpecCancel == Init /\ [][NextCancel]_vars

TypeOK ==
    /\ now \in 0..MaxTime
    /\ next_id \in 1..(MaxJobs + 1)
    /\ \A id \in JobIds : jobs[id] = NoRow \/ jobs[id].status \in JobStatus

\* ------------------------------------------- exactly-once delivery scenarios
\* number of mark_job_running writes (= handler invocations) a job has had
Invocations(id) == Cardinality({i \in DOMAIN trace[id] : trace[id][i] = RUNNING})

\* actors.py: _compute_retry_delay_seconds evaluated at attempt k
ComputeDelay ==
    \E k \in 1..MaxRetryNumber :
        /\ calc' = Some([attempt |-> k, delay |-> _compute_retry_delay_seconds(settings, k)])
        /\ UNCHANGED <<authvars, req, ticks, now, settings, worker_name, jobs, next_id, broker, redelivered,
                       enq, run, dispatches, trace, retries, tracing>>

RetrySettings ==
    [job_max_attempts : {3}, job_retry_base_seconds : {0 - 1, 0, 1, 2, 3},
     job_retry_max_seconds : {1, 2, 3, 5}]

InitRetry ==
    /\ InitCommon
    /\ tracing = TRUE
    /\ settings \in RetrySettings
    /\ worker_name = [r \in Runners |-> "integrations-worker"]

SubmitRegistered ==
    \E max_attempts \in MaxAttemptsChoices :
        EnqueueCreate("c1", "process_webhook_event", Null, max_attempts, Null)

NextRetry ==
    \/ SubmitRegistered
    \/ Dispatch
    \/ LoadOnce
    \/ Claim
    \/ Return
    \/ Raise
    \/ Resend
    \/ Tick
    \/ ComputeDelay

SpecRetry == InitRetry /\ [][NextRetry]_vars

\* spec.md section 8, scenario 2: max_attempts=5, base=1, cap=10, a handler
\* that fails its first two invocations and succeeds on the third
FlakySettings ==
    [job_max_attempts |-> 8, job_retry_base_seconds |-> 1, job_retry_max_seconds |-> 10]

InitFlaky ==
    /\ InitCommon
    /\ tracing = TRUE
    /\ settings = FlakySettings
    /\ worker_name \in {w \in [Runners -> WorkerNames] : w["r1"] = "integrations-worker"}

SubmitFlaky == EnqueueCreate("c1", "process_webhook_event", Null, Some(5), Null)
FlakyRaise ==
    \E r \in Runners, exc \in Exceptions :
        run[r].pc = "handler" /\ Invocations(run[r].job_id) < 3 /\ HandlerRaises(r, exc)
FlakyReturn ==
    \E r \in Runners :
        run[r].pc = "handler" /\ Invocations(run[r].job_id) >= 3 /\ HandlerReturns(r)

NextFlaky ==
    \/ SubmitFlaky
    \/ Dispatch
    \/ LoadOnce
    \/ Claim
    \/ FlakyReturn
    \/ FlakyRaise
    \/ Resend
    \/ Tick

SpecFlaky == InitFlaky /\ [][NextFlaky]_vars

\* spec.md section 8, scenario 3: a handler that raises on every invocation
InitBroken ==
    /\ InitCommon
    /\ tracing = TRUE
    /\ settings \in SettingsChoices
    /\ worker_name \in {w \in [Runners -> WorkerNames] : w["r1"] = "integrations-worker"}

NextBroken ==
    \/ SubmitRegistered
    \/ Dispatch
    \/ LoadOnce
    \/ Claim
    \/ Raise
    \/ Resend
    \/ Tick

SpecBroken == InitBroken /\ [][NextBroken]_vars

\* ------------------------------------------------------------------ claims
CallsWithKey(k) == {c \in Callers : enq[c].pc # "start" /\ enq[c].key = Some(k)}

\* C1: for every idempotency key k and every interleaving of enqueue_job
\* calls that pass k: exactly one row with key k exists, every call returns
\* that row's id, exactly one call returns created = TRUE, and once the calls
\* have returned queue.enqueue was invoked exactly once for that id.
C1_EnqueueIdempotent ==
    \A k \in Keys :
        LET calls == CallsWithKey(k)
            rows == RowsWithKey(jobs, Some(k))
        IN calls # {} =>
            /\ Cardinality(rows) = 1
            /\ \A c \in calls : enq[c].id \in rows
            /\ Cardinality({c \in calls : enq[c].created}) = 1
            /\ \A id \in rows :
                 /\ dispatches[id] <= 1
                 /\ (\A c \in calls : enq[c].pc = "done") => dispatches[id] = 1

\* three calls with the same key have all returned
C1_Witness ==
    \E k \in Keys :
        /\ CallsWithKey(k) = Callers
        /\ \A c \in Callers : enq[c].pc = "done"
        /\ \E c \in Callers : ~enq[c].created

SameJobInHandler(r1, r2) ==
    /\ r1 # r2
    /\ run[r1].pc = "handler"
    /\ run[r2].pc = "handler"
    /\ run[r1].job_id = run[r2].job_id

\* C2: for every job and every interleaving of deliveries, at no time are two
\* handler invocations for the same job in progress.
C2_OneHandlerPerJob == \A r1 \in Runners, r2 \in Runners : ~SameJobInHandler(r1, r2)

\* C3: once a row is succeeded or dead, no later step changes its status or
\* starts its handler again.
C3_TerminalSticky ==
    [][\A id \in JobIds :
          (Exists(jobs, id) /\ jobs[id].status \in {SUCCEEDED, DEAD}) =>
              /\ jobs'[id].status = jobs[id].status
              /\ \A r \in Runners :
                    ~(run[r].pc # "handler" /\ run'[r].pc = "handler"
                      /\ run'[r].job_id = id)]_vars

\* C4: when the row was set to canceled while the handler ran, the runner's
\* final transition leaves the row canceled.
C4_CanceledKept ==
    [][\A r \in Runners :
          (run[r].pc = "handler" /\ run'[r].pc # "handler"
           /\ jobs[run[r].job_id].status = CANCELED) =>
              jobs'[run[r].job_id].status = CANCELED]_vars

\* C5: in every reachable state and for every job attempts <= max_attempts,
\* and a failed row has attempts < max_attempts (reaching max_attempts on a
\* failure leaves the job dead).
C5_AttemptsBounded ==
    \A id \in JobIds :
        Exists(jobs, id) =>
            /\ jobs[id].attempts <= jobs[id].max_attempts
            /\ jobs[id].status = FAILED => jobs[id].attempts < jobs[id].max_attempts

Locked(row) == row.locked_by # Null /\ row.locked_at # Null
Unlocked(row) == row.locked_by = Null /\ row.locked_at = Null

\* C6: in every reachable state and for every job, locked_by and locked_at
\* are both non-null when status = running and both null otherwise.
C6_LockIffRunning ==
    \A id \in JobIds :
        Exists(jobs, id) =>
            IF jobs[id].status = RUNNING THEN Locked(jobs[id]) ELSE Unlocked(jobs[id])

\* a job that was claimed, failed into a retry and was claimed again
C6_Witness ==
    \E id \in JobIds :
        /\ Exists(jobs, id)
        /\ jobs[id].status = RUNNING
        /\ jobs[id].attempts >= 1
        /\ Locked(jobs[id])

\* C7: when the handler raises for a job loaded with attempts = a and
\* max_attempts = m, the exception does not leave _run_job; if a+1 >= m the row
\* becomes dead with attempts = a+1, otherwise it becomes failed with
\* attempts = a+1, lock columns null and run_after = now + delay, and the step
\* that follows sends exactly one message for the job id with that delay.
C7_HandlerFailure ==
    [][\A r \in Runners :
          LET id == run[r].job_id
              a == run[r].attempts
              m == run[r].max_attempts
              delay == _compute_retry_delay_seconds(settings, a + 1)
          IN /\ (\E exc \in Exceptions : HandlerRaises(r, exc)) =>
                   /\ run'[r].pc # "raised"
                   /\ broker' = broker
                   /\ jobs'[id].attempts = a + 1
                   /\ jobs'[id].last_error # Null
                   /\ IF a + 1 >= m
                      THEN /\ jobs'[id].status = DEAD
                           /\ run'[r].pc = "idle"
                      ELSE /\ jobs'[id].status = FAILED
                           /\ Unlocked(jobs'[id])
                           /\ jobs'[id].run_after = Some(now + delay)
                           /\ run'[r].pc = "resend"
                           /\ run'[r].delay = delay
             /\ (run[r].pc = "resend" /\ run'[r] # run[r]) =>
                   /\ broker' = broker (+) SetToBag({Message(id, Some(now + run[r].delay))})
                   /\ run'[r].pc = "idle"]_vars

\* a failed job awaiting its retry, with the delayed redelivery in the broker
C7_Witness ==
    \E id \in JobIds :
        /\ Exists(jobs, id)
        /\ jobs[id].status = FAILED
        /\ jobs[id].attempts = 2
        /\ \E msg \in BagToSet(broker) : msg.job_id = id /\ msg.eta # Null

RECURSIVE Pow2(_)
Pow2(n) == IF n <= 0 THEN 1 ELSE 2 * Pow2(n - 1)

\* d is the backoff min(base * 2^(k-1), cap)
DelayIs(d, k, base, cap) == d = Min(base * Pow2(k - 1), cap)

FlakyTrace == <<QUEUED, RUNNING, FAILED, RUNNING, FAILED, RUNNING, SUCCEEDED>>
IsPrefix(s, t) == Len(s) <= Len(t) /\ \A i \in DOMAIN s : s[i] = t[i]
FlakyRun(id, final_attempts) ==
    /\ IsPrefix(trace[id], FlakyTrace)
    /\ jobs[id].status = SUCCEEDED =>
          /\ trace[id] = FlakyTrace
          /\ [k \in DOMAIN retries[id] |-> retries[id][k].delay] = <<1, 2>>
          /\ jobs[id].attempts = final_attempts

\* C9 as stated: the flaky job goes queued -> running -> failed -> running ->
\* failed -> running -> succeeded with retry delays 1 s then 2 s and ends
\* succeeded with attempts = 3.
C9_FlakyAsStated == \A id \in JobIds : Exists(jobs, id) => FlakyRun(id, 3)

\* C9 amended: the same run, ending succeeded with attempts = 2.
C9_FlakyRun == \A id \in JobIds : Exists(jobs, id) => FlakyRun(id, 2)

\* the flaky job has succeeded
C9_Witness ==
    \E id \in JobIds :
        Exists(jobs, id) /\ jobs[id].status = SUCCEEDED /\ Invocations(id) = 3

\* nothing is left to happen for the job: dispatched, no message, no runner on it
Quiescent(id) ==
    /\ dispatches[id] = 1
    /\ \A msg \in BagToSet(broker) : msg.job_id # id
    /\ \A r \in Runners : run[r].job_id # id

\* C10: a job whose handler raises on every invocation, created with
\* max_attempts = m, has exactly m running phases and ends dead with
\* attempts = m and last_error carrying the exception message.
C10_BrokenRun ==
    \A id \in JobIds :
        Exists(jobs, id) =>
            /\ Invocations(id) <= jobs[id].max_attempts
            /\ jobs[id].status \notin {SUCCEEDED, CANCELED}
            /\ Quiescent(id) => jobs[id].status = DEAD
            /\ jobs[id].status = DEAD =>
                  /\ Invocations(id) = jobs[id].max_attempts
                  /\ jobs[id].attempts = jobs[id].max_attempts
                  /\ \E exc \in Exceptions :
                        /\ jobs[id].last_error = Some(FormatError(exc))
                        /\ Val(jobs[id].last_error)[3] = exc[2]

\* the scenario of spec.md: max_attempts = 2, two running phases, dead
C10_Witness ==
    \E id \in JobIds :
        /\ Exists(jobs, id)
        /\ jobs[id].max_attempts = 2
        /\ jobs[id].status = DEAD
        /\ Invocations(id) = 2
        /\ Quiescent(id)

\* C11: delivering the id of a job whose type has no registered handler moves
\* the job directly to dead with last_error set, without marking it running
\* and without scheduling a retry, and the runner goes back to idle.
C11_UnknownTypeDead ==
    [][\A r \in Runners :
          ActorFailed(r) =>
              /\ jobs'[run[r].job_id].status = DEAD
              /\ jobs'[run[r].job_id].last_error # Null
              /\ broker' = broker
              /\ run'[r].pc = "idle"]_vars

\* ======================================================== ingest API (api.py)
Sources == {"example", "other"}

\* settings.api_shared_secret (str | None) and the X-API-Secret header a
\* request carries (Null = no header); %E9 stands for the byte 0xE9, which
\* the framework decodes to a non-ASCII character
SecretChoices == {Null, Some(""), Some("test-secret")}
HeaderChoices == {Null, Some("test-secret"), Some("wrong"), Some("s%E9cret")}
NonAscii == {"s%E9cret"}

\* secrets.compare_digest on two str: TypeError when either has a non-ASCII
\* character, otherwise equality
compare_digest(a, b) ==
    IF a \in NonAscii \/ b \in NonAscii THEN "TypeError"
    ELSE IF a = b THEN "True" ELSE "False"

\* api.py: _is_authorized
_is_authorized(cfg, header) ==
    IF cfg.api_shared_secret = Null \/ cfg.api_shared_secret = Some("")
    THEN "False"
    ELSE compare_digest(IF header = Null THEN "" ELSE Val(header),
                        Val(cfg.api_shared_secret))

\* str.strip(): leading and trailing whitespace removed
RECURSIVE lstrip(_)
lstrip(chars) ==
    IF chars # <<>> /\ Head(chars) = " " THEN lstrip(Tail(chars)) ELSE chars
RECURSIVE rstrip(_)
rstrip(chars) ==
    IF chars # <<>> /\ chars[Len(chars)] = " "
    THEN rstrip(SubSeq(chars, 1, Len(chars) - 1)) ELSE chars
strip(chars) == rstrip(lstrip(chars))

\* api.py: _extract_idempotency_key
_extract_idempotency_key(value) ==
    IF value.t = "str" /\ strip(value.v) # <<>> THEN Some(strip(value.v)) ELSE Null

\* the response of a handler that returns before enqueueing anything
Rejected(handler, status) ==
    [IdleReq EXCEPT !.pc = "responded", !.handler = handler, !.status = status]

\* request bodies of POST /webhooks/{source}: not JSON, a JSON array, or a
\* JSON object with the value it holds under "id"
EventIds == {<<"evt-1">>}
IdValues ==
    {JNull, JNumber(<<"7">>), JStr(<<" ">>)}
        \cup {JStr(e) : e \in EventIds} \cup {JStr(<<" ">> \o e) : e \in EventIds}
IngestBodies ==
    {[json |-> "invalid", id |-> JNull], [json |-> "array", id |-> JNull]}
        \cup {[json |-> "object", id |-> v] : v \in IdValues}

\* api.py: ingest_handler up to the enqueue_job call
ingest_handler(c, source, header, body) ==
    /\ req[c].pc = "idle"
    /\ LET auth == _is_authorized(settings, header)
       IN req' = [req EXCEPT ![c] =
            IF auth = "TypeError" THEN Rejected("ingest_handler", 500)
            ELSE IF auth = "False" THEN Rejected("ingest_handler", 401)
            ELSE IF body.json = "invalid" THEN Rejected("ingest_handler", 400)
            ELSE IF body.json # "object" THEN Rejected("ingest_handler", 400)
            ELSE [IdleReq EXCEPT !.pc = "enqueue", !.handler = "ingest_handler",
                                 !.source = source, !.event = body.id,
                                 !.keys = <<_extract_idempotency_key(body.id)>>]]
    /\ UNCHANGED <<authvars, now, settings, worker_name, jobs, next_id, broker, redelivered,
                   enq, run, dispatches, trace, retries, tracing, calc, ticks>>

\* fn.__name__ each handler passes to enqueue_job
HandlerFn(handler) ==
    CASE handler = "ingest_handler" -> "process_webhook_event"
      [] handler = "espocrm_webhook_handler" -> "process_contact_skills_job"
      [] OTHER -> "sync_people_from_crm_job"

\* the handler calls enqueue_job for the next key: create_job_record
HandlerEnqueue(c) ==
    /\ req[c].pc = "enqueue"
    /\ req[c].keys # <<>>
    /\ EnqueueCreate(c, HandlerFn(req[c].handler), Head(req[c].keys), Null, Null)

\* queue.py: create_job_record raises (the store is unavailable): no row
EnqueueCreateFails(c) ==
    /\ req[c].pc = "enqueue"
    /\ enq[c].pc = "start"
    /\ enq' = [enq EXCEPT ![c].pc = "raised"]
    /\ UNCHANGED <<authvars, now, settings, worker_name, jobs, next_id, broker, redelivered,
                   run, dispatches, trace, retries, tracing, calc, req, ticks>>

\* queue.py: enqueue_job, queue.enqueue raises (the broker is unavailable):
\* the row is committed, no message is sent, the exception leaves enqueue_job
EnqueueDispatchFails(c) ==
    /\ enq[c].pc = "dispatch"
    /\ dispatches' = [dispatches EXCEPT ![enq[c].id] = @ + 1]
    /\ enq' = [enq EXCEPT ![c].pc = "raised"]
    /\ UNCHANGED <<authvars, now, settings, worker_name, jobs, next_id, broker, redelivered,
                   run, trace, retries, tracing, calc, req, ticks>>

\* enqueue_job returned to the handler: the next key of a batch, or the 202
\* response (a scheduler call has no response and logs the result)
EnqueueReturns(c) ==
    /\ req[c].pc = "enqueue"
    /\ enq[c].pc = "done"
    /\ LET made == IF enq[c].created THEN req[c].made \cup {enq[c].id} ELSE req[c].made
           rest == Tail(req[c].keys)
       IN IF rest # <<>>
          THEN /\ req' = [req EXCEPT ![c].keys = rest, ![c].made = made]
               /\ enq' = [enq EXCEPT ![c] = IdleEnq]
               /\ ticks' = ticks
          ELSE /\ req' = [req EXCEPT ![c].pc = "responded", ![c].keys = rest,
                                     ![c].made = made,
                                     ![c].status =
                                        IF req[c].handler = "_crm_sync_scheduler"
                                        THEN 0 ELSE 202,
                                     ![c].job_id =
                                        IF req[c].handler = "espocrm_webhook_handler"
                                        THEN 0 ELSE enq[c].id]
               /\ enq' = enq
               /\ ticks' = IF req[c].handler \in {"_crm_sync_scheduler", "sync_people_handler"}
                           THEN ticks (+) SetToBag({[at |-> req[c].at, id |-> enq[c].id,
                                                    created |-> enq[c].created]})
                           ELSE ticks
    /\ UNCHANGED <<authvars, now, settings, worker_name, jobs, next_id, broker, redelivered,
                   run, dispatches, trace, retries, tracing, calc>>

\* enqueue_job raised into the handler: espocrm_webhook_handler answers 503,
\* _crm_sync_scheduler logs and goes on, the other handlers have no except
\* clause and the framework answers 500
EnqueueRaises(c) ==
    /\ req[c].pc = "enqueue"
    /\ enq[c].pc = "raised"
    /\ req' = [req EXCEPT ![c].pc = "responded",
                          ![c].made = IF enq[c].created THEN @ \cup {enq[c].id} ELSE @,
                          ![c].status =
                             CASE req[c].handler = "espocrm_webhook_handler" -> 503
                               [] req[c].handler = "_crm_sync_scheduler" -> 0
                               [] OTHER -> 500]
    /\ UNCHANGED <<authvars, now, settings, worker_name, jobs, next_id, broker, redelivered,
                   enq, run, dispatches, trace, retries, tracing, calc, ticks>>

\* settings of the API process
ApiSettings ==
    [job_max_attempts : {3}, job_retry_base_seconds : {1}, job_retry_max_seconds : {2},
     api_shared_secret : SecretChoices]

InitApi ==
    /\ InitCommon
    /\ tracing = FALSE
    /\ settings \in ApiSettings
    /\ worker_name = [r \in Runners |-> "integrations-worker"]

Ingest ==
    \E c \in Callers, source \in Sources, header \in HeaderChoices, body \in IngestBodies :
        ingest_handler(c, source, header, body)
CallEnqueue == \E c \in Callers : HandlerEnqueue(c)
CreateFails == \E c \in Callers : EnqueueCreateFails(c)
DispatchFails == \E c \in Callers : EnqueueDispatchFails(c)
Returns == \E c \in Callers : EnqueueReturns(c)
Raises == \E c \in Callers : EnqueueRaises(c)

\* POST /webhooks/{source} requests, store and broker failing at will
NextIngest ==
    \/ Ingest
    \/ CallEnqueue
    \/ CreateFails
    \/ Dispatch
    \/ DispatchFails
    \/ Returns
    \/ Raises

SpecIngest == InitApi /\ [][NextIngest]_vars

\* C12: when the broker dispatch inside enqueue_job fails after the job row
\* was created, the caller still gets success (HTTP 202 carrying the job id)
\* and the row remains in queued.
C12_DispatchFailureIsSuccess ==
    \A c \in Callers :
        (req[c].pc = "responded" /\ enq[c].pc = "raised" /\ enq[c].created) =>
            /\ req[c].status = 202
            /\ req[c].job_id = enq[c].id
            /\ jobs[enq[c].id].status = QUEUED

\* ================================================= lost broker deliveries
\* actors.py: _schedule_retry, execute_job.send_with_options raises (the
\* broker is unavailable): mark_job_retry has been committed, the exception
\* leaves the except branch of _run_job and the actor fails
ScheduleRetrySendFails(r) ==
    /\ run[r].pc = "resend"
    /\ run' = [run EXCEPT ![r].pc = "raised"]
    /\ UNCHANGED <<authvars, now, settings, worker_name, jobs, next_id, broker, redelivered,
                   enq, dispatches, trace, retries, tracing, calc, req, ticks>>

ResendFails == \E r \in Runners : ScheduleRetrySendFails(r)

\* the worker and the enqueue path with a broker that may refuse a send; every
\* background task the processes start is in Next (consumer.py run, api.py
\* _lifespan), and none of them scans the jobs table
NextLost ==
    \/ SubmitRegistered
    \/ Dispatch
    \/ DispatchFails
    \/ LoadOnce
    \/ Claim
    \/ Return
    \/ Raise
    \/ Resend
    \/ ResendFails
    \/ Failed
    \/ Tick

\* the processes keep running: a step that stays possible is eventually taken
SpecLost == Init /\ [][NextLost]_vars /\ WF_vars(NextLost)

\* the job waits in queued or failed, its retry instant (if any) has come, no
\* message for it is in the broker and no process is working on it
Stranded(id) ==
    /\ Exists(jobs, id)
    /\ jobs[id].status \in {QUEUED, FAILED}
    /\ IF jobs[id].run_after = Null THEN TRUE ELSE Val(jobs[id].run_after) <= now
    /\ \A m \in BagToSet(broker) : m.job_id # id
    /\ \A c \in Callers : ~(enq[c].pc = "dispatch" /\ enq[c].id = id)
    /\ \A r \in Runners : ~(run[r].pc # "idle" /\ run[r].job_id = id)

\* once stranded a job stays stranded: no step of the program, and no passing
\* of time, sends a message for it or changes its row
StrandedForever ==
    [][\A id \in JobIds : Stranded(id) => Stranded(id)']_vars

\* C13: every job in queued, or failed with run_after <= now, whose broker
\* delivery was lost or never accepted is eventually dispatched again, so no
\* job stays queued or failed forever.
C13_LostDeliveryRecovered ==
    \A id \in JobIds :
        Stranded(id) ~> (\E m \in BagToSet(broker) : m.job_id = id)

\* an answered POST /webhooks/{source} that got past the body checks
Posted(c, source, event) ==
    /\ req[c].pc = "responded"
    /\ req[c].handler = "ingest_handler"
    /\ req[c].source = source
    /\ req[c].event = event

\* C14: for any source s and event id e, two POSTs to /webhooks/s with a JSON
\* object whose id is e (in sequence or concurrently) are both answered 202
\* with the same job_id, leave exactly one job row for the event, and invoke
\* the broker exactly once.
C14_WebhookTwice ==
    \A c1, c2 \in Callers : \A s \in Sources : \A e \in IdValues \ {JNull} :
        (c1 # c2 /\ Posted(c1, s, e) /\ Posted(c2, s, e)) =>
            /\ req[c1].status = 202
            /\ req[c2].status = 202
            /\ req[c1].job_id = req[c2].job_id
            /\ Exists(jobs, req[c1].job_id)
            /\ Cardinality(req[c1].made \cup req[c2].made) <= 1
            /\ dispatches[req[c1].job_id] = 1

\* C15: webhook keys are namespaced by source: two accepted webhooks on
\* different sources that carry the same event id have distinct job rows, and
\* neither is answered with the other's job.
C15_KeysNamespacedBySource ==
    \A c1, c2 \in Callers : \A s1, s2 \in Sources : \A e \in IdValues :
        (/\ s1 # s2
         /\ Posted(c1, s1, e) /\ Posted(c2, s2, e)
         /\ req[c1].status = 202 /\ req[c2].status = 202) =>
            /\ req[c1].job_id # req[c2].job_id
            /\ \A id \in {req[c1].job_id, req[c2].job_id} :
                  jobs[id].idempotency_key # Null =>
                      Val(jobs[id].idempotency_key)[1] \in Sources

\* ============================================ POST /webhooks/espocrm (api.py)
\* list(dict.fromkeys(xs)): the first occurrence of every element, in order
RECURSIVE dedupe(_)
dedupe(xs) ==
    IF xs = <<>> THEN <<>>
    ELSE LET front == dedupe(SubSeq(xs, 1, Len(xs) - 1))
             last == xs[Len(xs)]
         IN IF \E i \in DOMAIN front : front[i] = last THEN front
            ELSE Append(front, last)

\* the key with the event id left out
espocrm_key_without_id(event_id) == <<"espocrm", ":">>

\* api.py: _enqueue_espocrm_batch_sync, idempotency_key=f"espocrm:{event_id}"
espocrm_key(event_id) == <<"espocrm", ":">> \o event_id

\* models.py: WebhookEvent.model_validate accepts an event whose id is a str
ValidEvent(event) == event.t = "str"

\* request bodies of POST /webhooks/espocrm: not JSON, a JSON object, or a
\* JSON array of events, each given by the value it holds under "id"
ContactIds == {<<"c-1">>, <<"c-2">>}
EspoBatches ==
    {<<>>} \cup {<<JStr(a)>> : a \in ContactIds}
           \cup {<<JStr(a), JStr(b)>> : a, b \in ContactIds}
           \cup {<<JStr(a), JNumber(<<"7">>)>> : a \in ContactIds}
EspoBodies ==
    {[json |-> "invalid", events |-> <<>>], [json |-> "object", events |-> <<>>]}
        \cup {[json |-> "array", events |-> b] : b \in EspoBatches}

\* api.py: espocrm_webhook_handler up to the first enqueue_job call (an empty
\* batch is answered at once)
espocrm_webhook_handler(c, header, body) ==
    /\ req[c].pc = "idle"
    /\ LET auth == _is_authorized(settings, header)
           event_ids == [i \in DOMAIN body.events |-> body.events[i].v]
           deduped_event_ids == dedupe(event_ids)
       IN req' = [req EXCEPT ![c] =
            IF auth = "TypeError" THEN Rejected("espocrm_webhook_handler", 500)
            ELSE IF auth = "False" THEN Rejected("espocrm_webhook_handler", 401)
            ELSE IF body.json = "invalid" THEN Rejected("espocrm_webhook_handler", 400)
            ELSE IF body.json # "array" THEN Rejected("espocrm_webhook_handler", 400)
            ELSE IF \E i \in DOMAIN body.events : ~ValidEvent(body.events[i])
                 THEN Rejected("espocrm_webhook_handler", 400)
            ELSE [IdleReq EXCEPT
                    !.pc = IF deduped_event_ids = <<>> THEN "responded" ELSE "enqueue",
                    !.status = IF deduped_event_ids = <<>> THEN 202 ELSE 0,
                    !.handler = "espocrm_webhook_handler",
                    !.source = "espocrm",
                    !.events = deduped_event_ids,
                    !.keys = [i \in DOMAIN deduped_event_ids |->
                                 Some(espocrm_key(deduped_event_ids[i]))]]]
    /\ UNCHANGED <<authvars, now, settings, worker_name, jobs, next_id, broker, redelivered,
                   enq, run, dispatches, trace, retries, tracing, calc, ticks>>

Espocrm ==
    \E c \in Callers, header \in HeaderChoices, body \in EspoBodies :
        espocrm_webhook_handler(c, header, body)

\* POST /webhooks/espocrm requests, store and broker failing at will
NextEspo ==
    \/ Espocrm
    \/ CallEnqueue
    \/ CreateFails
    \/ Dispatch
    \/ DispatchFails
    \/ Returns
    \/ Raises

SpecEspo == InitApi /\ [][NextEspo]_vars

\* a batch the handler has answered
Answered(c, status) ==
    /\ req[c].pc = "responded"
    /\ req[c].handler = "espocrm_webhook_handler"
    /\ req[c].status = status

\* C16: after any sequence of accepted batches of POST /webhooks/espocrm,
\* exactly one job row with key "espocrm:<id>" exists for every event id
\* received, whether duplicates are inside one batch or spread over requests.
C16_OneRowPerEvent ==
    \A c \in Callers :
        Answered(c, 202) =>
            \A i \in DOMAIN req[c].events :
                Cardinality(RowsWithKey(jobs, Some(<<"espocrm", ":">> \o req[c].events[i]))) = 1

\* two accepted batches that share an event id, and two rows in the table
C16_Witness ==
    \E c1, c2 \in Callers :
        /\ c1 # c2
        /\ Answered(c1, 202) /\ Answered(c2, 202)
        /\ Len(req[c1].events) = 2
        /\ \E i \in DOMAIN req[c2].events : req[c2].events[i] = req[c1].events[1]
        /\ req[c2].made = {}
        /\ Cardinality({id \in JobIds : Exists(jobs, id)}) = 2

\* C17: an ingest request answered 400 (invalid JSON, wrong shape, schema
\* failure) or 503 (store or broker unavailable, including a batch that fails
\* part-way) has created no job row.
C17_RejectedCreatesNothing ==
    \A c \in Callers :
        (req[c].pc = "responded" /\ req[c].status \in {400, 503}) =>
            req[c].made = {}

\* no secret is configured, or the header is absent or differs from it
Unauthenticated(header) ==
    \/ settings.api_shared_secret = Null
    \/ header # settings.api_shared_secret

\* C18: on a secret-guarded endpoint, when no shared secret is configured or
\* the X-API-Secret header differs from the configured one, the response is
\* 401 whatever the body is, the body is not looked at, and the request
\* creates no job row and no broker dispatch.
C18_UnauthenticatedIs401 ==
    [][\A c \in Callers, source \in Sources, header \in HeaderChoices, body \in IngestBodies :
          (Unauthenticated(header) /\ ingest_handler(c, source, header, body)) =>
              /\ req'[c] = Rejected("ingest_handler", 401)
              /\ jobs' = jobs
              /\ broker' = broker
              /\ dispatches' = dispatches
              /\ enq' = enq]_vars

\* ================================================= CRM sync scheduler (api.py)
MaxTicks == 5        \* calls of _enqueue_full_crm_sync_job

\* config.py: crm_sync_interval_seconds
IntervalChoices == {2, 60}

\* the stretch of wall-clock time looked at starts just before a multiple of
\* every interval
ClockStarts == {58}
SchedClock == UNION {s..(s + MaxTime) : s \in ClockStarts}

\* the API processes running a scheduler loop, and the clients of /sync/people
SchedulerLoops == {"c1", "c2"}
SyncClients == {"c3"}

\* a key that takes the second instead of the bucket
_crm_sync_idempotency_key_per_second(cfg, t) ==
    Some(<<"crm-sync", ":", t>>)

\* api.py: _crm_sync_idempotency_key
_crm_sync_idempotency_key(cfg, t) ==
    LET interval_seconds == Max(1, cfg.crm_sync_interval_seconds)
        bucket == t \div interval_seconds
    IN Some(<<"crm-sync", ":", bucket>>)

\* calls of _enqueue_full_crm_sync_job made and not yet failed
TicksStarted ==
    BagCardinality(ticks) + Cardinality({c \in Callers :
        req[c].pc = "enqueue"
        /\ req[c].handler \in {"_crm_sync_scheduler", "sync_people_handler"}})

\* _enqueue_full_crm_sync_job that passes no idempotency key
_enqueue_full_crm_sync_job_without_key(c, reason) ==
    /\ TicksStarted < MaxTicks
    /\ req' = [req EXCEPT ![c] =
                  [IdleReq EXCEPT !.pc = "enqueue", !.handler = reason, !.at = now,
                                  !.keys = <<Null>>]]
    /\ enq' = [enq EXCEPT ![c] = IdleEnq]
    /\ UNCHANGED <<authvars, now, settings, worker_name, jobs, next_id, broker, redelivered,
                   run, dispatches, trace, retries, tracing, calc, ticks>>

\* api.py: _enqueue_full_crm_sync_job up to the enqueue_job call: the clock is
\* read and the key computed
_enqueue_full_crm_sync_job(c, reason) ==
    /\ TicksStarted < MaxTicks
    /\ req' = [req EXCEPT ![c] =
                  [IdleReq EXCEPT !.pc = "enqueue", !.handler = reason, !.at = now,
                                  !.keys = <<_crm_sync_idempotency_key(settings, now)>>]]
    /\ enq' = [enq EXCEPT ![c] = IdleEnq]
    /\ UNCHANGED <<authvars, now, settings, worker_name, jobs, next_id, broker, redelivered,
                   run, dispatches, trace, retries, tracing, calc, ticks>>

\* api.py: _crm_sync_scheduler, one turn of the loop; the loop has slept
\* interval_seconds since its previous turn
_crm_sync_scheduler(c) ==
    /\ \/ req[c].pc = "idle"
       \/ /\ req[c].pc = "responded"
          /\ req[c].handler = "_crm_sync_scheduler"
          /\ now >= req[c].at + Max(1, settings.crm_sync_interval_seconds)
    /\ _enqueue_full_crm_sync_job(c, "_crm_sync_scheduler")

\* api.py: sync_people_handler (POST /sync/people), a client sending one
\* request after the other
sync_people_handler(c, header) ==
    /\ \/ req[c].pc = "idle"
       \/ req[c].pc = "responded" /\ req[c].handler = "sync_people_handler"
    /\ LET auth == _is_authorized(settings, header)
       IN IF auth = "True"
          THEN _enqueue_full_crm_sync_job(c, "sync_people_handler")
          ELSE /\ req' = [req EXCEPT ![c] =
                            Rejected("sync_people_handler",
                                     IF auth = "False" THEN 401 ELSE 500)]
               /\ UNCHANGED <<authvars, now, settings, worker_name, jobs, next_id, broker,
                              redelivered, enq, run, dispatches, trace, retries,
                              tracing, calc, ticks>>

\* the clock advances inside the stretch it started in
Advance ==
    /\ now + 1 \in SchedClock
    /\ now' = now + 1
    /\ UNCHANGED <<authvars, settings, worker_name, jobs, next_id, broker, redelivered, enq,
                   run, dispatches, trace, retries, tracing, calc, req, ticks>>

SchedSettings ==
    [job_max_attempts : {3}, job_retry_base_seconds : {1}, job_retry_max_seconds : {2},
     api_shared_secret : {Some("test-secret")},
     crm_sync_interval_seconds : IntervalChoices]

InitSched ==
    /\ now \in ClockStarts
    /\ jobs = [id \in JobIds |-> NoRow]
    /\ next_id = 1
    /\ broker = EmptyBag
    /\ redelivered = 0
    /\ enq = [c \in Callers |-> IdleEnq]
    /\ run = [r \in Runners |-> IdleRun]
    /\ dispatches = [id \in JobIds |-> 0]
    /\ trace = [id \in JobIds |-> <<>>]
    /\ retries = [id \in JobIds |-> <<>>]
    /\ calc = Null
    /\ req = [c \in Callers |-> IdleReq]
    /\ ticks = EmptyBag
    /\ AuthIdle
    /\ tracing = FALSE
    /\ settings \in SchedSettings
    /\ worker_name = [r \in Runners |-> "integrations-worker"]

SchedulerTick == \E c \in SchedulerLoops : _crm_sync_scheduler(c)
ManualSync ==
    \E c \in SyncClients, header \in {Some("test-secret"), Some("wrong")} :
        sync_people_handler(c, header)

\* scheduler loops and manual triggers calling _enqueue_full_crm_sync_job
NextSched ==
    \/ SchedulerTick
    \/ ManualSync
    \/ CallEnqueue
    \/ Dispatch
    \/ Returns
    \/ Advance

SpecSched == InitSched /\ [][NextSched]_vars

\* the results returned so far, and how many of them have was_created = v
Ticked == BagToSet(ticks)
TicksWith(v, S) ==
    BagCardinality([t \in {x \in S : x.created = v} |-> ticks[t]])

\* floor(timestamp / interval_seconds)
Bucket(t) == t \div settings.crm_sync_interval_seconds

\* C19: however many scheduler loops and manual triggers tick concurrently, at
\* most one crm-sync job row exists per bucket floor(timestamp /
\* interval_seconds), and that job is dispatched to the broker at most once.
C19_OneJobPerBucket ==
    /\ \A t1, t2 \in Ticked : Bucket(t1.at) = Bucket(t2.at) => t1.id = t2.id
    /\ \A b \in {Bucket(t) : t \in SchedClock} :
          Cardinality({id \in JobIds :
              Exists(jobs, id) /\ jobs[id].idempotency_key = Some(<<"crm-sync", ":", b>>)}) <= 1
    /\ \A id \in JobIds :
          /\ dispatches[id] <= 1
          /\ \A m \in BagToSet(broker) : m.job_id = id => CopiesIn(m, broker) = 1

\* two calls for one bucket in flight at once: one has created the row and
\* not yet dispatched it, the other has been told created = false
C19_Witness ==
    \E c1, c2 \in Callers :
        /\ c1 # c2
        /\ req[c1].pc = "enqueue" /\ req[c2].pc = "enqueue"
        /\ Bucket(req[c1].at) = Bucket(req[c2].at)
        /\ enq[c1].pc = "dispatch"
        /\ enq[c2].pc = "done" /\ ~enq[c2].created /\ enq[c2].id = enq[c1].id
        /\ BagCardinality(ticks) >= 1

\* the tick has run exactly five times and every call has returned
FiveTicks ==
    /\ settings.crm_sync_interval_seconds = 60
    /\ TicksStarted = 5
    /\ BagCardinality(ticks) = 5

\* C20 as stated: with interval = 60 s, five ticks that fall within one
\* 60-second window, wherever it starts, create exactly one new row and the
\* four other ticks return was_created = false.
C20_AnyWindow ==
    (FiveTicks /\ \A t1, t2 \in Ticked : t1.at - t2.at < 60) =>
        /\ TicksWith(TRUE, Ticked) = 1
        /\ TicksWith(FALSE, Ticked) = 4

\* C20 amended: with interval = 60 s, the ticks that fall within one bucket
\* [60k, 60k + 60) all return the same job and at most one of them returns
\* was_created = true; when the tick has run five times, all within one
\* bucket, exactly one returns was_created = true and four return false.
C20_AlignedWindow ==
    settings.crm_sync_interval_seconds = 60 =>
        /\ \A t \in Ticked :
              LET same == {x \in Ticked : x.at \div 60 = t.at \div 60}
              IN /\ \A x \in same : x.id = t.id
                 /\ TicksWith(TRUE, same) <= 1
        /\ (FiveTicks /\ \A t1, t2 \in Ticked : t1.at \div 60 = t2.at \div 60) =>
              /\ TicksWith(TRUE, Ticked) = 1
              /\ TicksWith(FALSE, Ticked) = 4
              /\ Cardinality({id \in JobIds : Exists(jobs, id)}) = 1

\* five ticks inside one bucket have returned, at two different seconds
C20_Witness ==
    /\ FiveTicks
    /\ \A t1, t2 \in Ticked : t1.at \div 60 = t2.at \div 60
    /\ \E t1, t2 \in Ticked : t1.at # t2.at
    /\ TicksWith(FALSE, Ticked) = 4

\* ============================================================ auth store
\* five08.backend.auth: RedisAuthStore, and the api.py handlers of /auth/*.
\* Every Redis command is one atomic step.  secrets.token_urlsafe values are
\* fresh: the n-th state, session id and link token is the number n.
StateIds == 1..MaxStates
SessionIds == 1..MaxSessions
LinkTokens == 1..MaxLinks

\* auth.py: _set_json.  SETEX key max(1, ttl_seconds) value, written at time t
_set_json(db, key, payload, ttl_seconds, t) ==
    [db EXCEPT ![key] = [status |-> "stored", payload |-> payload,
                         expire_at |-> t + Max(1, ttl_seconds)]]

\* auth.py: _get_json.  GET key at time t: a key past its TTL is gone
_get_json(db, key, t) ==
    IF key \in DOMAIN db /\ Exists(db, key) /\ t < db[key].expire_at
    THEN Some(db[key].payload) ELSE Null

\* redis DEL key
redis_delete(db, key) ==
    IF key \in DOMAIN db THEN [db EXCEPT ![key] = NoRow] ELSE db

\* _pop_json as GET followed by nothing: the key stays
_pop_json_keeps_key(db, key, t) ==
    [db |-> db, value |-> _get_json(db, key, t)]

\* auth.py: _pop_json / _redis_getdel.  GETDEL key: one command returns the
\* value and removes the key
_pop_json(db, key, t) ==
    [db |-> redis_delete(db, key), value |-> _get_json(db, key, t)]

\* auth.py: RedisAuthStore.pop_oidc_state
pop_oidc_state(db, state, t) == _pop_json(db, state, t)

\* auth.py: RedisAuthStore.save_oidc_state
save_oidc_state(db, state, payload, ttl_seconds, t) ==
    _set_json(db, state, payload, ttl_seconds, t)

\* auth.py: RedisAuthStore.save_session
save_session(db, session_id, payload, ttl_seconds, t) ==
    _set_json(db, session_id, payload, ttl_seconds, t)

\* delete_session that leaves the key in Redis
delete_session_keeps_key(db, session_id) == db

\* auth.py: RedisAuthStore.delete_session
delete_session(db, session_id) == redis_delete(db, session_id)

\* get_session that returns whatever Redis still holds
get_session_ignores_expiry(db, session_id, t) ==
    [db |-> db, session |-> _get_json(db, session_id, t)]

\* auth.py: RedisAuthStore.get_session.  `if parsed.expires_at <= now` deletes
\* the key and returns None
get_session(db, session_id, t) ==
    LET value == _get_json(db, session_id, t)
    IN IF value = Null THEN [db |-> db, session |-> Null]
       ELSE IF Val(value).expires_at <= t
            THEN [db |-> delete_session(db, session_id), session |-> Null]
            ELSE [db |-> db, session |-> value]

\* auth.py: RedisAuthStore.save_discord_link
save_discord_link(db, token, payload, ttl_seconds, t) ==
    _set_json(db, token, payload, ttl_seconds, t)

\* auth.py: RedisAuthStore.get_discord_link
get_discord_link(db, token, t) == _get_json(db, token, t)

\* auth.py: RedisAuthStore.delete_discord_link
delete_discord_link(db, token) == redis_delete(db, token)

\* ------------------------------------------------------- redirect targets
\* str.startswith
startswith(chars, prefix) ==
    Len(chars) >= Len(prefix) /\ SubSeq(chars, 1, Len(prefix)) = prefix

\* normalize_next_path that accepts every stripped candidate
normalize_next_path_accepts_all(candidate, fallback) ==
    IF candidate = Null THEN fallback ELSE strip(Val(candidate))

\* auth.py: normalize_next_path
normalize_next_path(candidate, fallback) ==
    IF candidate = Null THEN fallback
    ELSE LET value == strip(Val(candidate))
         IN IF ~startswith(value, <<"/">>) THEN fallback
            ELSE IF startswith(value, <<"/", "/">>) THEN fallback
            ELSE value

\* api.py: `fallback=normalize_next_path(settings.dashboard_default_path)`,
\* whose own fallback is the default "/"
default_next_path(cfg) ==
    normalize_next_path(Some(cfg.dashboard_default_path), <<"/">>)

\* ------------------------------------------------------------- id tokens
\* str.casefold / str.lower on the names and addresses used below
casefold(text) ==
    CASE text = "Admin" -> "admin"
      [] text = "Owner" -> "owner"
      [] text = "Ada@508.dev" -> "ada@508.dev"
      [] OTHER -> text

\* auth.py: extract_groups (the claim is already a list of non-blank names)
extract_groups(claims) == claims.groups

\* auth.py: is_admin_from_groups
is_admin_from_groups(groups, configured_admin_groups) ==
    {casefold(g) : g \in groups} \cap configured_admin_groups # {}

\* api.py: auth_callback_handler, `email = str(raw_email).strip().lower() if
\* raw_email else None`
claims_email(claims) ==
    IF claims.email = Null \/ claims.email = Some("") THEN Null
    ELSE Some(casefold(Val(claims.email)))

\* api.py: auth_callback_handler, audit_actor_subject
audit_actor_subject(claims) ==
    IF claims_email(claims) # Null THEN Val(claims_email(claims)) ELSE claims.sub

\* the people table: active rows with an admin Discord role
People == {[discord_user_id |-> "d-1", email |-> "Ada@508.dev"]}

\* auth.py: DiscordAdminVerifier.is_admin_email_for_discord_user
is_admin_email_for_discord_user(email, discord_user_id) ==
    /\ email # ""
    /\ \E row \in People : /\ row.discord_user_id = discord_user_id
                           /\ casefold(row.email) = casefold(email)

\* auth.py: DiscordAdminVerifier.is_admin_discord_user
is_admin_discord_user(discord_user_id) ==
    \E row \in People : row.discord_user_id = discord_user_id

\* the exp claim of an id token: an integer number of seconds, or a
\* NumericDate with a fraction, [t |-> "float", v |-> n] standing for n + 0.5
IntExp(n) == [t |-> "int", v |-> n]
FloatExp(n) == [t |-> "float", v |-> n]

\* claims jwt.decode accepts at time t: sub is present and exp lies ahead
Identities ==
    { [sub |-> "u-ada", email |-> Some("Ada@508.dev"), groups |-> {"Admin"}],
      [sub |-> "u-bob", email |-> Some("bob@508.dev"), groups |-> {"member"}],
      [sub |-> "u-cyd", email |-> Null, groups |-> {"Owner"}],
      [sub |-> "u-dee", email |-> Some("dee@508.dev"), groups |-> {"Admin"}] }
ExpChoices(t) == {IntExp(t + 1), IntExp(t + 9), FloatExp(t + 1)}
IdTokenClaims(who, exps) ==
    { [sub |-> i.sub, email |-> i.email, groups |-> i.groups, exp |-> e] :
        i \in who, e \in exps }

\* what the provider calls of the callback end in: exchange_code raises, the
\* token response has no id_token, validate_id_token raises, or the claims
ProviderOutcomes(tokens) ==
    { [kind |-> k, claims |-> Null] :
        k \in {"exchange_failed", "id_token_missing", "invalid_id_token"} }
    \cup { [kind |-> "ok", claims |-> Some(cl)] : cl \in tokens }

\* ------------------------------------------------------------ audit sink
\* one AuditEventInput of _write_auth_audit_event
AuditEvent(action, result, actor_subject, resource_id, correlation_id) ==
    [action |-> action, result |-> result, actor_subject |-> actor_subject,
     resource_id |-> resource_id, correlation_id |-> correlation_id]

\* _write_auth_audit_event without its try/except: the exception of
\* insert_audit_event reaches the handler
_write_auth_audit_event_propagates(events, event, sink_ok) ==
    IF event.actor_subject = "" THEN [events |-> events, calls |-> <<>>, raised |-> FALSE]
    ELSE IF sink_ok
         THEN [events |-> events (+) SetToBag({event}),
               calls |-> <<[event |-> event, stored |-> TRUE]>>, raised |-> FALSE]
         ELSE [events |-> events,
               calls |-> <<[event |-> event, stored |-> FALSE]>>, raised |-> TRUE]

\* api.py: _write_auth_audit_event.  A blank subject writes nothing; the
\* insert either stores the row (sink_ok) or raises, and the exception is
\* logged and swallowed.  calls lists the insert_audit_event calls made.
_write_auth_audit_event(events, event, sink_ok) ==
    IF event.actor_subject = "" THEN [events |-> events, calls |-> <<>>, raised |-> FALSE]
    ELSE IF sink_ok
         THEN [events |-> events (+) SetToBag({event}),
               calls |-> <<[event |-> event, stored |-> TRUE]>>, raised |-> FALSE]
         ELSE [events |-> events,
               calls |-> <<[event |-> event, stored |-> FALSE]>>, raised |-> FALSE]

\* a response: the handler call is over and its locals are gone
Respond(w, status, detail) ==
    [w EXCEPT !.pc = "respond", !.status = status, !.detail = detail,
              !.pending = Null, !.claims = Null, !.grant = Null]

\* the 500 of an exception that leaves the handler
Raised500(w) == Respond(w, 500, "Internal Server Error")

\* a client is free to send its next request
Free(c) == web[c].pc = "idle"

\* the handler call of client c goes on as w, or is over: w is its response
Settle(c, w) ==
    IF w.pc = "respond"
    THEN /\ web' = [web EXCEPT ![c] = IdleWeb]
         /\ reply' = [w EXCEPT !.client = c]
    ELSE /\ web' = [web EXCEPT ![c] = w]
         /\ UNCHANGED reply

\* --------------------------------------------------------- auth handlers
\* A handler runs as one step up to the first await after which another
\* request can change what it has read: the callback stops between the bind
\* check and delete_discord_link, the deep-link redirect between
\* get_discord_link and the session check.

\* next paths a client sends: none, a local path, a scheme-relative URL, a
\* local path behind whitespace, an absolute URL
NextPathChoices ==
    {Null, Some(<<"/", "x">>), Some(<<"/", "/", "e">>), Some(<<" ", "/", "x">>),
     Some(<<"h", ":", "/", "/", "e">>)}

\* the cookie a client can present: none or a session id it was handed
CookieChoices == {Null} \cup {Some(k) : k \in 1..issued.sessions}
\* the link token a client can present: none or a generated token
TokenChoices == {Null} \cup {Some(k) : k \in 1..issued.links}

\* api.py: auth_login_handler
auth_login_handler(c, next_path, discord_link_token) ==
    /\ Free(c)
    /\ issued.states < MaxStates
    /\ LET w == [IdleWeb EXCEPT !.handler = "auth_login_handler",
                                !.token = discord_link_token]
           normalized_next_path ==
               normalize_next_path(next_path, default_next_path(settings))
           state == issued.states + 1
       IN IF ~settings.oidc_configured
          THEN /\ Settle(c, Respond(w, 503, "oidc_not_configured"))
               /\ UNCHANGED <<oidc_states, issued>>
          ELSE IF /\ discord_link_token # Null
                  /\ get_discord_link(discord_links, Val(discord_link_token), now) = Null
          THEN /\ Settle(c, Respond(w, 404, "link_not_found"))
               /\ UNCHANGED <<oidc_states, issued>>
          ELSE /\ oidc_states' =
                      save_oidc_state(oidc_states, state,
                                      [next_path |-> normalized_next_path,
                                       discord_link_token |-> discord_link_token],
                                      settings.auth_state_ttl_seconds, now)
               /\ issued' = [issued EXCEPT !.states = state]
               /\ Settle(c, [Respond(w, 302, "authorization_url")
                                 EXCEPT !.state = Some(state)])
    /\ UNCHANGED <<now, queuevars, audit_tasks, sessions, discord_links, audit_events>>

\* api.py: auth_callback_handler, exchange_code and validate_id_token
callback_provider(w, outcome) ==
    CASE outcome.kind = "exchange_failed" -> Respond(w, 502, "oidc_exchange_failed")
      [] outcome.kind = "id_token_missing" -> Respond(w, 400, "id_token_missing")
      [] outcome.kind = "invalid_id_token" -> Respond(w, 401, "invalid_id_token")
      [] OTHER -> [w EXCEPT !.claims = outcome.claims,
                            !.pc = IF Val(w.pending).discord_link_token # Null
                                   THEN "bind" ELSE "session"]

\* the bind check that refuses without an audit event
callback_bind_result_unaudited(w, sink_ok) ==
    LET claims == Val(w.claims)
        grant == get_discord_link(discord_links,
                                  Val(Val(w.pending).discord_link_token), now)
        is_admin == is_admin_from_groups(extract_groups(claims),
                                         settings.oidc_admin_group_names)
        email == claims_email(claims)
        refused(status, detail) ==
            [events |-> audit_events, web |-> Respond(w, status, detail)]
    IN IF grant = Null THEN refused(404, "link_not_found")
       ELSE IF ~is_admin THEN refused(403, "admin_group_required")
       ELSE IF email = Null THEN refused(403, "email_claim_required")
       ELSE IF ~is_admin_email_for_discord_user(Val(email), Val(grant).discord_user_id)
       THEN refused(403, "oidc_user_not_linked_to_discord_admin")
       ELSE [events |-> audit_events,
             web |-> [w EXCEPT !.pc = "session", !.grant = grant]]

\* api.py: auth_callback_handler, `if pending.discord_link_token:` up to the
\* last check of the bind: the request and the audit_events it leaves
callback_bind_result(w, sink_ok) ==
    LET claims == Val(w.claims)
        grant == get_discord_link(discord_links,
                                  Val(Val(w.pending).discord_link_token), now)
        is_admin == is_admin_from_groups(extract_groups(claims),
                                         settings.oidc_admin_group_names)
        email == claims_email(claims)
        audit == _write_auth_audit_event(
                     audit_events,
                     AuditEvent("auth.login", "denied", audit_actor_subject(claims),
                                Null, w.state),
                     sink_ok)
        refused(status, detail) ==
            [events |-> audit.events,
             web |-> IF audit.raised THEN Raised500([w EXCEPT !.audits = audit.calls])
                     ELSE Respond([w EXCEPT !.audits = audit.calls], status, detail)]
    IN IF grant = Null THEN refused(404, "link_not_found")
       ELSE IF ~is_admin THEN refused(403, "admin_group_required")
       ELSE IF email = Null THEN refused(403, "email_claim_required")
       ELSE IF ~is_admin_email_for_discord_user(Val(email), Val(grant).discord_user_id)
       THEN refused(403, "oidc_user_not_linked_to_discord_admin")
       ELSE [events |-> audit_events,
             web |-> [w EXCEPT !.pc = "session", !.grant = grant]]

\* session_expires_at that takes the configured maximum only
session_expires_at_ignores_token(cfg, claims, t) ==
    t + Max(1, cfg.auth_session_ttl_seconds)

\* api.py: auth_callback_handler, `now = int(time.time())` .. `expires_at =
\* min(token_expiry, max_session_expiry)`
session_expires_at(cfg, claims, t) ==
    LET max_session_expiry == t + Max(1, cfg.auth_session_ttl_seconds)
        token_expiry == IF claims.exp.t = "int" THEN claims.exp.v
                        ELSE max_session_expiry
    IN Min(token_expiry, max_session_expiry)

\* api.py: auth_callback_handler, the AuthSession it saves
new_session(cfg, claims, t) ==
    [subject |-> claims.sub, email |-> claims_email(claims),
     is_admin |-> is_admin_from_groups(extract_groups(claims),
                                       cfg.oidc_admin_group_names),
     expires_at |-> session_expires_at(cfg, claims, t)]

\* api.py: auth_callback_handler from `await store.delete_discord_link(..)` to
\* the response: what it leaves in Redis, audit_events and the request
callback_session_result(w, sink_ok) ==
    LET pending == Val(w.pending)
        claims == Val(w.claims)
        session_id == issued.sessions + 1
        redirect_to == normalize_next_path(Some(pending.next_path),
                                           default_next_path(settings))
        audit == _write_auth_audit_event(
                     audit_events,
                     AuditEvent("auth.login", "success", audit_actor_subject(claims),
                                Some(session_id), w.state),
                     sink_ok)
        saved == [w EXCEPT !.audits = audit.calls]
    IN [links |-> IF pending.discord_link_token # Null
                  THEN delete_discord_link(discord_links,
                                           Val(pending.discord_link_token))
                  ELSE discord_links,
        sessions |-> save_session(sessions, session_id,
                                  new_session(settings, claims, now),
                                  settings.auth_session_ttl_seconds, now),
        events |-> audit.events,
        web |-> IF audit.raised THEN Raised500(saved)
                ELSE [Respond(saved, 302, "") EXCEPT !.location = Some(redirect_to),
                                                      !.set_cookie = Some(session_id)]]

\* the callback creates its session and answers
SaveSessionStep(c, w, sink_ok) ==
    /\ issued.sessions < MaxSessions
    /\ discord_links' = callback_session_result(w, sink_ok).links
    /\ sessions' = callback_session_result(w, sink_ok).sessions
    /\ audit_events' = callback_session_result(w, sink_ok).events
    /\ Settle(c, callback_session_result(w, sink_ok).web)
    /\ issued' = [issued EXCEPT !.sessions = issued.sessions + 1]

\* api.py: auth_callback_handler, from the request to the response or to
\* the await that follows a bind check that passed
auth_callback_handler(c, code, state, outcome, sink_ok) ==
    /\ Free(c)
    /\ LET w == [IdleWeb EXCEPT !.handler = "auth_callback_handler",
                                !.state = state]
           answer(status, detail) ==
               /\ Settle(c, Respond(w, status, detail))
               /\ UNCHANGED <<oidc_states, sessions, discord_links, audit_events,
                              issued>>
       IN IF code = Null \/ state = Null THEN answer(400, "missing_code_or_state")
          ELSE IF ~settings.oidc_configured THEN answer(503, "oidc_not_configured")
          ELSE LET popped == pop_oidc_state(oidc_states, Val(state), now)
                   held == [w EXCEPT !.pending = popped.value,
                                     !.token = IF popped.value = Null THEN Null
                                               ELSE Val(popped.value).discord_link_token]
                   called == callback_provider(held, outcome)
               IN /\ oidc_states' = popped.db
                  /\ IF popped.value = Null
                     THEN /\ Settle(c, Respond(w, 400, "invalid_state"))
                          /\ UNCHANGED <<sessions, discord_links, audit_events, issued>>
                     ELSE IF called.pc = "respond"
                     THEN /\ Settle(c, called)
                          /\ UNCHANGED <<sessions, discord_links, audit_events, issued>>
                     ELSE IF called.pc = "bind"
                     THEN /\ Settle(c, callback_bind_result(called, sink_ok).web)
                          /\ audit_events' = callback_bind_result(called, sink_ok).events
                          /\ UNCHANGED <<sessions, discord_links, issued>>
                     ELSE SaveSessionStep(c, called, sink_ok)
    /\ UNCHANGED <<now, queuevars, audit_tasks>>

\* api.py: auth_callback_handler, the rest of the handler once the bind
\* check has passed
callback_session(c, sink_ok) ==
    /\ web[c].pc = "session"
    /\ SaveSessionStep(c, web[c], sink_ok)
    /\ UNCHANGED <<now, queuevars, audit_tasks, oidc_states>>

\* the Set-Cookie of _clear_session_cookie: the cookie name with no value
ClearedCookie == Some(0)

\* api.py: _current_session
_current_session(db, cookie, t) ==
    IF cookie = Null THEN [db |-> db, session_id |-> Null, session |-> Null]
    ELSE [db |-> get_session(db, Val(cookie), t).db, session_id |-> cookie,
          session |-> get_session(db, Val(cookie), t).session]

\* api.py: auth_me_handler
auth_me_handler(c, cookie) ==
    /\ Free(c)
    /\ LET w == [IdleWeb EXCEPT !.handler = "auth_me_handler", !.cookie = cookie]
           current == _current_session(sessions, cookie, now)
       IN /\ sessions' = current.db
          /\ Settle(c, IF current.session = Null
                THEN [Respond(w, 401, "unauthorized") EXCEPT !.set_cookie = ClearedCookie]
                ELSE Respond([w EXCEPT !.session = current.session], 200, ""))
    /\ UNCHANGED <<now, queuevars, audit_tasks, oidc_states, discord_links, audit_events, issued>>

\* api.py: auth_logout_handler: what it leaves in Redis, audit_events and
\* the request
logout_result(w, sink_ok) ==
    LET current == _current_session(sessions, w.cookie, now)
        session == current.session
        event == AuditEvent("auth.logout", "success",
                            IF Val(session).email # Null
                            THEN Val(Val(session).email) ELSE Val(session).subject,
                            w.cookie, Null)
        audit == IF session # Null
                 THEN _write_auth_audit_event(audit_events, event, sink_ok)
                 ELSE [events |-> audit_events, calls |-> <<>>, raised |-> FALSE]
        written == [w EXCEPT !.audits = audit.calls]
    IN [sessions |-> IF current.session_id # Null
                     THEN delete_session(current.db, Val(current.session_id))
                     ELSE current.db,
        events |-> audit.events,
        web |-> IF audit.raised THEN Raised500(written)
                ELSE [Respond(written, 200, "logged_out")
                         EXCEPT !.set_cookie = ClearedCookie]]

\* api.py: auth_logout_handler
auth_logout_handler(c, cookie, sink_ok) ==
    /\ Free(c)
    /\ LET w == [IdleWeb EXCEPT !.handler = "auth_logout_handler", !.cookie = cookie]
       IN /\ sessions' = logout_result(w, sink_ok).sessions
          /\ audit_events' = logout_result(w, sink_ok).events
          /\ Settle(c, logout_result(w, sink_ok).web)
    /\ UNCHANGED <<now, queuevars, audit_tasks, oidc_states, discord_links, issued>>

\* Discord user ids the bot asks a link for: an admin and somebody else
DiscordUserIds == {"d-1", "d-2"}

\* api.py: auth_discord_link_create_handler
auth_discord_link_create_handler(c, header, discord_user_id, next_path) ==
    /\ Free(c)
    /\ issued.links < MaxLinks
    /\ LET w == [IdleWeb EXCEPT !.handler = "auth_discord_link_create_handler"]
           token == issued.links + 1
           authorized == _is_authorized(settings, header)
       IN IF authorized # "True"
          THEN /\ Settle(c, IF authorized = "TypeError" THEN Raised500(w)
                            ELSE Respond(w, 401, "unauthorized"))
               /\ UNCHANGED <<discord_links, issued>>
          ELSE IF ~is_admin_discord_user(discord_user_id)
          THEN /\ Settle(c, Respond(w, 403, "discord_user_not_admin"))
               /\ UNCHANGED <<discord_links, issued>>
          ELSE /\ discord_links' =
                      save_discord_link(
                          discord_links, token,
                          [discord_user_id |-> discord_user_id,
                           next_path |-> normalize_next_path(
                                             next_path, default_next_path(settings))],
                          settings.discord_link_ttl_seconds, now)
               /\ issued' = [issued EXCEPT !.links = token]
               /\ Settle(c, [Respond(w, 201, "created") EXCEPT !.token = Some(token)])
    /\ UNCHANGED <<now, queuevars, audit_tasks, oidc_states, sessions, audit_events>>

\* api.py: auth_discord_link_redirect_handler up to `grant = await
\* store.get_discord_link(token)`
auth_discord_link_redirect_handler(c, token, cookie) ==
    /\ Free(c)
    /\ LET w == [IdleWeb EXCEPT !.handler = "auth_discord_link_redirect_handler",
                                !.token = Some(token), !.cookie = cookie]
           grant == get_discord_link(discord_links, token, now)
       IN Settle(c, IF grant = Null THEN Respond(w, 404, "link_not_found")
                     ELSE [w EXCEPT !.pc = "link_session", !.grant = grant])
    /\ UNCHANGED <<now, queuevars, audit_tasks, oidc_states, sessions, discord_links,
                   audit_events, issued>>

\* the deep-link redirect that deletes the grant when it refuses the bind
link_redirect_bind_consumes_on_denial(c) ==
    /\ web[c].pc = "link_session"
    /\ LET w == web[c]
           grant == Val(w.grant)
           current == _current_session(sessions, w.cookie, now)
           refuse(detail) ==
               /\ Settle(c, Respond(w, 403, detail))
               /\ discord_links' = delete_discord_link(discord_links, Val(w.token))
       IN /\ sessions' = current.db
          /\ IF current.session = Null
             THEN /\ Settle(c, [Respond(w, 302, "login")
                           EXCEPT !.location =
                               Some(<<"/", "auth/login?next=">> \o grant.next_path)])
                  /\ UNCHANGED discord_links
             ELSE IF ~Val(current.session).is_admin
             THEN refuse("admin_group_required")
             ELSE IF Val(current.session).email = Null
             THEN refuse("email_claim_required")
             ELSE IF ~is_admin_email_for_discord_user(
                          Val(Val(current.session).email), grant.discord_user_id)
             THEN refuse("oidc_user_not_linked_to_discord_admin")
             ELSE /\ discord_links' = delete_discord_link(discord_links, Val(w.token))
                  /\ Settle(c, [Respond(w, 302, "bound")
                           EXCEPT !.location = Some(grant.next_path)])
    /\ UNCHANGED <<now, queuevars, audit_tasks, oidc_states, audit_events, issued>>

\* api.py: auth_discord_link_redirect_handler from `_current_session(request)`
\* to the response
link_redirect_bind(c) ==
    /\ web[c].pc = "link_session"
    /\ LET w == web[c]
           grant == Val(w.grant)
           current == _current_session(sessions, w.cookie, now)
           refuse(detail) ==
               /\ Settle(c, Respond(w, 403, detail))
               /\ UNCHANGED discord_links
       IN /\ sessions' = current.db
          /\ IF current.session = Null
             THEN /\ Settle(c, [Respond(w, 302, "login")
                           EXCEPT !.location =
                               Some(<<"/", "auth/login?next=">> \o grant.next_path)])
                  /\ UNCHANGED discord_links
             ELSE IF ~Val(current.session).is_admin
             THEN refuse("admin_group_required")
             ELSE IF Val(current.session).email = Null
             THEN refuse("email_claim_required")
             ELSE IF ~is_admin_email_for_discord_user(
                          Val(Val(current.session).email), grant.discord_user_id)
             THEN refuse("oidc_user_not_linked_to_discord_admin")
             ELSE /\ discord_links' = delete_discord_link(discord_links, Val(w.token))
                  /\ Settle(c, [Respond(w, 302, "bound")
                           EXCEPT !.location = Some(grant.next_path)])
    /\ UNCHANGED <<now, queuevars, audit_tasks, oidc_states, audit_events, issued>>

\* WorkerSettings of the auth endpoints: the secret of the bot, whether the
\* OIDC client is configured, the TTLs, the admin groups, the default path
AuthSettings ==
    [api_shared_secret : {Some("test-secret")},
     oidc_configured : BOOLEAN,
     oidc_admin_group_names : {{"admin", "owner", "steering committee"}},
     auth_state_ttl_seconds : {2},
     auth_session_ttl_seconds : {2},
     discord_link_ttl_seconds : {3},
     dashboard_default_path : {<<"/", "d">>, <<"h", ":", "/", "/", "e">>},
     audit_api_base_url : {Null, Some("http://backend-api:8090")}]

\* the deployment with the default dashboard_default_path, "/dashboard"
InitAuth ==
    /\ InitCommon
    /\ tracing = FALSE
    /\ settings \in {cfg \in AuthSettings :
                         /\ cfg.dashboard_default_path = <<"/", "d">>
                         /\ cfg.audit_api_base_url # Null}
    /\ worker_name = [r \in Runners |-> "integrations-worker"]

\* the provider is called only by a callback that obtained its pending state
ProviderCalls(code, state, tokens) ==
    IF /\ code # Null /\ state # Null /\ settings.oidc_configured
       /\ _get_json(oidc_states, Val(state), now) # Null
    THEN ProviderOutcomes(tokens)
    ELSE {[kind |-> "exchange_failed", claims |-> Null]}
\* the audit sink is called only after the provider returned claims
SinkAfter(outcome) == IF outcome.kind = "ok" THEN BOOLEAN ELSE {TRUE}

LoginWith(paths) ==
    \E c \in Browsers, next_path \in paths, token \in TokenChoices :
        auth_login_handler(c, next_path, token)
CallbackWith(tokens) ==
    \E c \in Browsers, code \in {Null, Some("code")},
       state \in {Null} \cup {Some(k) : k \in StateIds} :
        \E outcome \in ProviderCalls(code, state, tokens) :
            \E sink_ok \in SinkAfter(outcome) :
                auth_callback_handler(c, code, state, outcome, sink_ok)
SaveSession == \E c \in Browsers, sink_ok \in BOOLEAN : callback_session(c, sink_ok)
Me == \E c \in Browsers, cookie \in CookieChoices : auth_me_handler(c, cookie)
Logout ==
    \E c \in Browsers, cookie \in CookieChoices :
        \E sink_ok \in IF cookie = Null THEN {TRUE} ELSE BOOLEAN :
            auth_logout_handler(c, cookie, sink_ok)
LinkCreateWith(paths) ==
    \E c \in Bots, header \in {Some("test-secret"), Some("wrong")},
       discord_user_id \in DiscordUserIds, next_path \in paths :
        auth_discord_link_create_handler(c, header, discord_user_id, next_path)
LinkRedirect ==
    \E c \in Browsers, token \in LinkTokens, cookie \in CookieChoices :
        auth_discord_link_redirect_handler(c, token, cookie)
LinkBind == \E c \in Browsers : link_redirect_bind(c)

\* logins, callbacks, /auth/me and logouts of two browsers while time passes:
\* one user, id tokens that expire before, after and between two seconds
Ada == {i \in Identities : i.sub = "u-ada"}
Login == LoginWith({Null})
Callback == CallbackWith(IdTokenClaims(Ada, ExpChoices(now)))
NextAuth ==
    \/ Login
    \/ Callback
    \/ Me
    \/ Logout
    \/ Tick

SpecAuth == InitAuth /\ [][NextAuth]_vars

\* deep links: the bot creates a grant, browsers log in through it or
\* follow it with a session; every kind of user, long-lived id tokens
LinkCreate == LinkCreateWith({Null})
LinkCallback == CallbackWith(IdTokenClaims(Identities, {IntExp(now + 9)}))
NextLink ==
    \/ LinkCreate
    \/ Login
    \/ LinkCallback
    \/ SaveSession
    \/ LinkRedirect
    \/ LinkBind

SpecLink == InitAuth /\ [][NextLink]_vars

\* ------------------------------------------------------------------ C21
\* this step leaves a response of the handler to client c
RepliesTo(c, handler) == reply'.client = c /\ reply'.handler = handler

\* a callback request that carries a code and the state k
CallbackFor(c, k) ==
    \E outcome \in ProviderOutcomes(IdTokenClaims(Identities, ExpChoices(now))),
       sink_ok \in BOOLEAN :
        auth_callback_handler(c, Some("code"), Some(k), outcome, sink_ok)

\* C21: a given OIDC state completes the callback at most once.  A callback
\* presenting state k removes k from Redis in the step that reads it, a
\* callback that finds no pending state is answered 400 invalid_state and
\* creates no session, and a state that was consumed is never stored again:
\* so of all callbacks presenting k at most one obtains the pending state.
C21_StateConsumedOnce ==
    [][\A k \in StateIds :
          /\ \A c \in Browsers :
                (/\ settings.oidc_configured
                 /\ RepliesTo(c, "auth_callback_handler") \/ web'[c].pc = "session"
                 /\ reply'.state = Some(k) \/ web'[c].state = Some(k)
                 /\ CallbackFor(c, k)) =>
                    /\ oidc_states'[k] = NoRow
                    /\ _get_json(oidc_states, k, now) = Null =>
                          /\ reply'.client = c
                          /\ reply'.status = 400
                          /\ reply'.detail = "invalid_state"
                          /\ sessions' = sessions
                          /\ issued' = issued
          /\ (k <= issued.states /\ oidc_states[k] = NoRow) => oidc_states'[k] = NoRow
      ]_vars

\* a callback was answered with a session, and the replay of its state with
\* 400 invalid_state
C21_Witness ==
    /\ reply.handler = "auth_callback_handler"
    /\ reply.state = Some(1)
    /\ reply.status = 400
    /\ reply.detail = "invalid_state"
    /\ issued.states = 1
    /\ issued.sessions = 1

\* ------------------------------------------------------------------ C22
\* C22: after POST /auth/logout carrying session id s, s never resolves to
\* a session again.  The logout step leaves s absent from Redis whatever the
\* audit sink does, an absent session id that was handed out is never
\* stored again, and a request that presents an absent s is answered 401.
C22_LoggedOutStaysOut ==
    [][\A s \in SessionIds :
          /\ \A c \in Browsers, sink_ok \in BOOLEAN :
                (/\ RepliesTo(c, "auth_logout_handler")
                 /\ reply'.cookie = Some(s)
                 /\ auth_logout_handler(c, Some(s), sink_ok)) => sessions'[s] = NoRow
          /\ (s <= issued.sessions /\ sessions[s] = NoRow) =>
                /\ sessions'[s] = NoRow
                /\ get_session(sessions', s, now').session = Null
                /\ \A c \in Browsers :
                      (/\ RepliesTo(c, "auth_me_handler")
                       /\ reply'.cookie = Some(s)
                       /\ auth_me_handler(c, Some(s))) => reply'.status = 401
      ]_vars

\* a logout of session 1 was audited, and the /auth/me that presented
\* session 1 after it was answered 401 before the session could expire
C22_Witness ==
    /\ reply.handler = "auth_me_handler"
    /\ reply.cookie = Some(1)
    /\ reply.status = 401
    /\ sessions[1] = NoRow
    /\ now = 0
    /\ \E e \in BagToSet(audit_events) :
          e.action = "auth.logout" /\ e.resource_id = Some(1)

\* ------------------------------------------------------------------ C23
\* the callback of client c creates a session from the claims cl
Creates(c, cl) ==
    /\ issued'.sessions = issued.sessions + 1
    /\ \E k \in StateIds, sink_ok \in BOOLEAN :
          auth_callback_handler(c, Some("code"), Some(k),
                                [kind |-> "ok", claims |-> Some(cl)], sink_ok)

\* expires_at is the earlier of the id token's exp and t0 + session TTL; an
\* exp of n + 0.5 is the earlier one exactly when n < t0 + TTL, and is then
\* no whole number of seconds
EarlierOf(exp, limit, expires_at) ==
    IF exp.t = "int" THEN expires_at = Min(exp.v, limit)
    ELSE limit <= exp.v /\ expires_at = limit

\* a read of a session Redis still holds at or after its expires_at is answered 401
\* and removes the record, and /auth/me returns no session at or past its
\* expires_at
EvictedOnRead ==
    \A c \in Browsers, s \in SessionIds :
        (/\ RepliesTo(c, "auth_me_handler")
         /\ reply'.cookie = Some(s)
         /\ auth_me_handler(c, Some(s))) =>
            /\ (/\ _get_json(sessions, s, now) # Null
                /\ sessions[s].payload.expires_at <= now) =>
                  reply'.status = 401 /\ sessions'[s] = NoRow
            /\ reply'.status = 200 => now < Val(reply'.session).expires_at

\* C23: a session created at t0 from an id token with expiry exp has
\* expires_at = min(exp, t0 + session TTL), and a read at or after
\* expires_at returns no session and deletes the stored record.
C23_SessionExpiry ==
    [][/\ \A c \in Browsers, cl \in IdTokenClaims(Identities, ExpChoices(now)) :
            Creates(c, cl) =>
                EarlierOf(cl.exp, now + settings.auth_session_ttl_seconds,
                          sessions'[issued'.sessions].payload.expires_at)
       /\ EvictedOnRead
      ]_vars

\* the same for id tokens whose exp is an integer
C23_IntegerExp ==
    [][/\ \A c \in Browsers, cl \in IdTokenClaims(Identities, ExpChoices(now)) :
            (cl.exp.t = "int" /\ Creates(c, cl)) =>
                EarlierOf(cl.exp, now + settings.auth_session_ttl_seconds,
                          sessions'[issued'.sessions].payload.expires_at)
       /\ EvictedOnRead
      ]_vars

\* /auth/me found a session that Redis still held at its expires_at, and
\* answered 401
C23_Evicted ==
    /\ reply.handler = "auth_me_handler"
    /\ reply.status = 401
    /\ reply.cookie = Some(1)
    /\ sessions[1] = NoRow
    /\ now = 1

\* ------------------------------------------------------------------ C24
\* the request of client c that holds the grant of link token t passes the
\* bind in this step: the callback saves its session, or the deep-link
\* redirect sends the browser to the grant's next_path
BindCompletes(c, t) ==
    /\ web[c].token = Some(t)
    /\ web[c].grant # Null
    /\ \/ callback_session(c, TRUE) \/ callback_session(c, FALSE)
       \/ link_redirect_bind(c)
    /\ reply'.client = c
    /\ reply'.status = 302
    /\ reply'.set_cookie # Null \/ reply'.detail = "bound"

\* C24: a deep-link grant token yields at most one successful bind.  Every
\* request that passes the bind for token t does so while t still resolves
\* and leaves t absent, and an absent token is never stored again: so no
\* second callback or redirect passes the bind for t.
C24_AtMostOneBind ==
    [][\A t \in LinkTokens :
          /\ \A c \in Browsers :
                BindCompletes(c, t) =>
                    /\ get_discord_link(discord_links, t, now) # Null
                    /\ discord_links'[t] = NoRow
          /\ (t <= issued.links /\ discord_links[t] = NoRow) =>
                discord_links'[t] = NoRow
      ]_vars

\* ------------------------------------------------------------------ C25
\* why the bind check refuses the claims cl for the grant, "" when it passes
BindRefusal(cl, grant) ==
    IF ~is_admin_from_groups(extract_groups(cl), settings.oidc_admin_group_names)
    THEN "admin_group_required"
    ELSE IF claims_email(cl) = Null THEN "email_claim_required"
    ELSE IF ~is_admin_email_for_discord_user(Val(claims_email(cl)),
                                             grant.discord_user_id)
    THEN "oidc_user_not_linked_to_discord_admin"
    ELSE ""

\* the callback of client c for state k obtains the claims cl from the provider
CallbackWithClaims(c, k, cl, sink_ok) ==
    /\ settings.oidc_configured
    /\ auth_callback_handler(c, Some("code"), Some(k),
                             [kind |-> "ok", claims |-> Some(cl)], sink_ok)

\* C25: in the callback of a login that carries a deep-link token, when the
\* bind check fails (no admin group, no email claim, or email not linked to
\* the grant's subject) the response is 403, no session is saved, no session
\* cookie is set, and insert_audit_event is called once, with action
\* auth.login and result denied; the event is stored when the sink takes it.
C25_BindDenied ==
    [][\A c \in Browsers, k \in StateIds, sink_ok \in BOOLEAN,
          cl \in IdTokenClaims(Identities, {IntExp(now + 9)}) :
          LET pending == _get_json(oidc_states, k, now)
              token == Val(pending).discord_link_token
              grant == get_discord_link(discord_links, Val(token), now)
              event == AuditEvent("auth.login", "denied", audit_actor_subject(cl),
                                  Null, Some(k))
          IN (/\ RepliesTo(c, "auth_callback_handler")
              /\ reply'.state = Some(k)
              /\ pending # Null
              /\ token # Null
              /\ grant # Null
              /\ BindRefusal(cl, Val(grant)) # ""
              /\ CallbackWithClaims(c, k, cl, sink_ok)) =>
                 /\ reply'.client = c
                 /\ reply'.status = 403
                 /\ reply'.detail = BindRefusal(cl, Val(grant))
                 /\ reply'.set_cookie = Null
                 /\ sessions' = sessions
                 /\ issued'.sessions = issued.sessions
                 /\ web'[c] = IdleWeb
                 /\ reply'.audits = <<[event |-> event, stored |-> sink_ok]>>
                 /\ audit_events' = IF sink_ok
                                    THEN audit_events (+) SetToBag({event})
                                    ELSE audit_events
      ]_vars

\* a callback that came through a deep link was refused because the user's
\* email is not the one linked to the grant's Discord user: 403, no cookie,
\* no session, the denied event stored
C25_Witness ==
    /\ reply.handler = "auth_callback_handler"
    /\ reply.token = Some(1)
    /\ reply.status = 403
    /\ reply.detail = "oidc_user_not_linked_to_discord_admin"
    /\ reply.set_cookie = Null
    /\ issued.sessions = 0
    /\ \E e \in BagToSet(audit_events) :
          /\ e.action = "auth.login" /\ e.result = "denied"
          /\ e.actor_subject = "dee@508.dev"
          /\ CopiesIn(e, audit_events) = 1

\* ---------------------------------------------------- Discord audit logger
\* audit.py: DiscordAuditLogger.enabled
enabled(cfg) == cfg.audit_api_base_url # Null /\ cfg.api_shared_secret # Null

\* what requests.post ends in: a response of the worker API, or an exception
PostOutcomes == {"201", "401", "500", "ConnectionError"}

\* audit.py: DiscordAuditLogger._build_payload for the k-th command, run by
\* the Discord user `actor`
DiscordEvent(k, actor) ==
    AuditEvent("crm.search_members", "success", actor, Null, Some(k))

\* audit.py: DiscordAuditLogger._send_event_sync.  A status >= 400 and an
\* exception of requests.post are logged at warning level; nothing is raised
_send_event_sync(cfg, post) ==
    IF ~enabled(cfg) THEN [inserted |-> FALSE, warnings |-> 0, raised |-> FALSE]
    ELSE IF post = "201" THEN [inserted |-> TRUE, warnings |-> 0, raised |-> FALSE]
    ELSE IF post \in {"401", "500"}
         THEN [inserted |-> FALSE, warnings |-> 1, raised |-> FALSE]
         ELSE [inserted |-> FALSE, warnings |-> 1, raised |-> FALSE]

\* audit.py: DiscordAuditLogger.log_command, called by the k-th command: it
\* returns at once when the logger is disabled, else it creates the
\* background task and returns
log_command(k, actor) ==
    /\ audit_tasks[k].pc = "none"
    /\ \A j \in 1..(k - 1) : audit_tasks[j].pc # "none"
    /\ audit_tasks' =
           [audit_tasks EXCEPT ![k] =
               [NoTask EXCEPT !.pc = IF enabled(settings) THEN "queued" ELSE "skipped",
                              !.actor = actor,
                              !.command = "returned"]]
    /\ UNCHANGED <<now, queuevars, oidc_states, sessions, discord_links,
                   audit_events, web, reply, issued>>

\* audit.py: DiscordAuditLogger._post_event, the background task of the k-th
\* command in a worker thread; a 201 is the row audit_event_handler inserted
_post_event(k, post) ==
    /\ audit_tasks[k].pc = "queued"
    /\ LET sent == _send_event_sync(settings, post)
       IN /\ audit_events' = IF sent.inserted
                             THEN audit_events (+) SetToBag({DiscordEvent(k, audit_tasks[k].actor)})
                             ELSE audit_events
          /\ audit_tasks' = [audit_tasks EXCEPT ![k].pc = "finished",
                                                ![k].exception = sent.raised,
                                                ![k].warnings = sent.warnings]
    /\ UNCHANGED <<now, queuevars, oidc_states, sessions, discord_links,
                   web, reply, issued>>

\* audit.py: DiscordAuditLogger._on_task_done: task.result() inside
\* try/except, an exception of the task is logged at warning level
_on_task_done(k) ==
    /\ audit_tasks[k].pc = "finished"
    /\ audit_tasks' =
           [audit_tasks EXCEPT ![k].pc = "collected",
                               ![k].exception = FALSE,
                               ![k].warnings = IF audit_tasks[k].exception
                                               THEN @ + 1 ELSE @]
    /\ UNCHANGED <<now, queuevars, oidc_states, sessions, discord_links,
                   audit_events, web, reply, issued>>

LogCommand ==
    \E k \in 1..MaxCommands, actor \in DiscordUserIds : log_command(k, actor)
\* one Discord command beside the logins and logouts
AuditLogCommand == log_command(1, "d-1")
PostEvent == \E k \in 1..MaxCommands, post \in PostOutcomes : _post_event(k, post)
TaskDone == \E k \in 1..MaxCommands : _on_task_done(k)

\* the audit writers together: logins, logouts and Discord commands, with an
\* audit sink that stores or fails; the bot's logger is configured or not
InitAudit ==
    /\ InitCommon
    /\ tracing = FALSE
    /\ settings \in {cfg \in AuthSettings :
                         /\ cfg.dashboard_default_path = <<"/", "d">>
                         /\ cfg.oidc_configured}
    /\ worker_name = [r \in Runners |-> "integrations-worker"]

AdaAndBob == {i \in Identities : i.sub \in {"u-ada", "u-bob"}}
AuditCallback == CallbackWith(IdTokenClaims(AdaAndBob, {IntExp(now + 9)}))
NextAudit ==
    \/ Login
    \/ AuditCallback
    \/ Logout
    \/ AuditLogCommand
    \/ PostEvent
    \/ TaskDone

SpecAudit == InitAudit /\ [][NextAudit]_vars

\* ------------------------------------------------------------------ C26
\* the HTTP response of a handler call: everything but the record of its
\* insert_audit_event calls
Response(w) == [w EXCEPT !.audits = <<>>]

\* the callback request for state k once the provider has returned cl
AfterProvider(k, cl) ==
    LET popped == pop_oidc_state(oidc_states, k, now)
        w == [IdleWeb EXCEPT !.handler = "auth_callback_handler", !.state = Some(k)]
        held == [w EXCEPT !.pending = popped.value,
                          !.token = Val(popped.value).discord_link_token]
    IN callback_provider(held, [kind |-> "ok", claims |-> Some(cl)])

\* this step leaves the session store, the grants and the response to client
\* c as the result `expected` says
AnswersAs(c, expected) ==
    /\ sessions' = expected.sessions
    /\ discord_links' = expected.links
    /\ Response(reply') = Response([expected.web EXCEPT !.client = c])

\* C26: a failure to persist an audit event never fails the operation.  A
\* login callback and a logout whose insert_audit_event raises leave the same
\* sessions and grants and send the same response as with an insert that
\* succeeds, and no log_command call raises into its Discord command or
\* leaves a task that ended with an exception.
C26_AuditFailureHarmless ==
    [][/\ \A c \in Browsers, k \in StateIds :
            (/\ RepliesTo(c, "auth_callback_handler")
             /\ reply'.state = Some(k)
             /\ _get_json(oidc_states, k, now) # Null
             /\ Val(_get_json(oidc_states, k, now)).discord_link_token = Null) =>
                \A cl \in IdTokenClaims(Identities, {IntExp(now + 9)}) :
                    CallbackWithClaims(c, k, cl, FALSE) =>
                        /\ AnswersAs(c, callback_session_result(AfterProvider(k, cl), TRUE))
                        /\ reply'.status = 302
                        /\ reply'.set_cookie # Null
       /\ \A c \in Browsers :
            (web[c].pc = "session" /\ callback_session(c, FALSE)) =>
                AnswersAs(c, callback_session_result(web[c], TRUE))
       /\ \A c \in Browsers, cookie \in CookieChoices :
            (/\ RepliesTo(c, "auth_logout_handler")
             /\ reply'.cookie = cookie
             /\ auth_logout_handler(c, cookie, FALSE)) =>
                LET w == [IdleWeb EXCEPT !.handler = "auth_logout_handler",
                                         !.cookie = cookie]
                    expected == logout_result(w, TRUE)
                IN /\ sessions' = expected.sessions
                   /\ Response(reply') = Response([expected.web EXCEPT !.client = c])
                   /\ reply'.status = 200
       /\ \A k \in 1..MaxCommands :
            /\ audit_tasks'[k].command # "raised"
            /\ ~audit_tasks'[k].exception
      ]_vars

\* a logout whose audit insert raised was answered 200 after a login whose
\* audit insert raised too, and a Discord command returned although its
\* audit write failed with a warning
C26_Witness ==
    /\ reply.handler = "auth_logout_handler"
    /\ reply.status = 200
    /\ reply.cookie = Some(1)
    /\ reply.audits # <<>>
    /\ ~reply.audits[1].stored
    /\ sessions[1] = NoRow
    /\ issued.sessions = 1
    /\ audit_events = EmptyBag
    /\ \E k \in 1..MaxCommands :
          /\ audit_tasks[k].pc = "collected"
          /\ audit_tasks[k].command = "returned"
          /\ audit_tasks[k].warnings = 1

\* ------------------------------------------------------------------ C27
\* this step stores an audit event with the given result
Audited(result) ==
    \E e \in BagToSet(audit_events') :
        /\ e.result = result
        /\ CopiesIn(e, audit_events') > CopiesIn(e, audit_events)

\* C27: when the token exchange with the OIDC provider fails during
\* /auth/callback, the response is 502, no session is created, and an audit
\* event with result error is written.
C27_ProviderErrorAudited ==
    [][\A c \in Browsers, k \in StateIds :
          (/\ RepliesTo(c, "auth_callback_handler")
           /\ reply'.state = Some(k)
           /\ settings.oidc_configured
           /\ _get_json(oidc_states, k, now) # Null
           /\ auth_callback_handler(c, Some("code"), Some(k),
                                    [kind |-> "exchange_failed", claims |-> Null],
                                    TRUE)) =>
              /\ reply'.status = 502
              /\ sessions' = sessions
              /\ issued'.sessions = issued.sessions
              /\ Audited("error")
      ]_vars

\* the part of it the handler keeps: 502 and no session
C27_NoSessionOn502 ==
    [][\A c \in Browsers, k \in StateIds :
          (/\ RepliesTo(c, "auth_callback_handler")
           /\ reply'.state = Some(k)
           /\ settings.oidc_configured
           /\ _get_json(oidc_states, k, now) # Null
           /\ auth_callback_handler(c, Some("code"), Some(k),
                                    [kind |-> "exchange_failed", claims |-> Null],
                                    TRUE)) =>
              /\ reply'.status = 502
              /\ sessions' = sessions
              /\ issued'.sessions = issued.sessions
              /\ audit_events' = audit_events
      ]_vars

\* ------------------------------------------------------------------ C28
\* C28: every privileged HTTP request, whatever its outcome, results in at
\* least one audit event being written; here the session-guarded GET
\* /auth/me, answered 200 or 401.
C28_PrivilegedRequestAudited ==
    [][\A c \in Browsers, cookie \in CookieChoices :
          (/\ RepliesTo(c, "auth_me_handler")
           /\ reply'.cookie = cookie
           /\ auth_me_handler(c, cookie)) =>
              BagCardinality(audit_events') > BagCardinality(audit_events)
      ]_vars

\* ------------------------------------------------------------------ C29
\* every next path a caller can send reaches the login and the link
\* creation, under a safe and under an unsafe DASHBOARD_DEFAULT_PATH
InitPaths ==
    /\ InitCommon
    /\ tracing = FALSE
    /\ settings \in {cfg \in AuthSettings : cfg.audit_api_base_url # Null}
    /\ worker_name = [r \in Runners |-> "integrations-worker"]

PathLogin == LoginWith(NextPathChoices)
PathLinkCreate == LinkCreateWith(NextPathChoices)
PathCallback == CallbackWith(IdTokenClaims(Ada, {IntExp(now + 9)}))
NextPaths ==
    \/ PathLogin
    \/ PathLinkCreate
    \/ PathCallback
    \/ SaveSession

SpecPaths == InitPaths /\ [][NextPaths]_vars

\* a local absolute path: starts with "/" and not with "//"
SafePath(path) == startswith(path, <<"/">>) /\ ~startswith(path, <<"/", "/">>)

\* every redirect target kept or sent is a local absolute path
TargetsSafe ==
    /\ \A k \in StateIds :
          oidc_states[k] # NoRow => SafePath(oidc_states[k].payload.next_path)
    /\ \A t \in LinkTokens :
          discord_links[t] # NoRow => SafePath(discord_links[t].payload.next_path)
    /\ (reply.status = 302 /\ reply.location # Null) => SafePath(Val(reply.location))

\* the login and the link creation of this step store the target that
\* `kept` assigns to the candidate they were sent
StoresTarget(kept(_)) ==
    /\ \A c \in Browsers, next_path \in NextPathChoices, token \in TokenChoices :
          (/\ issued'.states = issued.states + 1
           /\ auth_login_handler(c, next_path, token)) =>
              oidc_states'[issued'.states].payload.next_path = kept(next_path)
    /\ \A c \in Bots, discord_user_id \in DiscordUserIds,
          next_path \in NextPathChoices :
          (/\ issued'.links = issued.links + 1
           /\ auth_discord_link_create_handler(c, Some("test-secret"),
                                               discord_user_id, next_path)) =>
              discord_links'[issued'.links].payload.next_path = kept(next_path)

\* the candidate if it starts with "/" and not with "//", else the fallback
KeptAsSent(candidate) ==
    IF candidate # Null /\ SafePath(Val(candidate)) THEN Val(candidate)
    ELSE default_next_path(settings)

\* the same test applied to the candidate without its surrounding whitespace
KeptStripped(candidate) ==
    IF candidate # Null /\ SafePath(strip(Val(candidate)))
    THEN strip(Val(candidate))
    ELSE default_next_path(settings)

\* C29 as stated: every redirect target derived from a caller-supplied next
\* path starts with "/" and not with "//", and any candidate that does not
\* is replaced by the fallback path.
C29_AsStated == [][TargetsSafe' /\ StoresTarget(KeptAsSent)]_vars

\* C29: every redirect target derived from a caller-supplied next path
\* starts with "/" and not with "//"; a candidate that is missing or that,
\* with its surrounding whitespace stripped, does not start with "/" or
\* starts with "//" is replaced by the fallback path, and any other
\* candidate is kept without that whitespace.
C29_RedirectTargetsLocal == [][TargetsSafe' /\ StoresTarget(KeptStripped)]_vars

\* with an absolute URL as DASHBOARD_DEFAULT_PATH the grant was created with
\* the fallback "/", and a login that asked for /x was redirected to /x
C29_Witness ==
    /\ settings.dashboard_default_path = <<"h", ":", "/", "/", "e">>
    /\ reply.handler = "auth_callback_handler"
    /\ reply.status = 302
    /\ reply.location = Some(<<"/", "x">>)
    /\ \E t \in LinkTokens :
          /\ discord_links[t] # NoRow
          /\ discord_links[t].payload.next_path = <<"/">>

\* ------------------------------------------------------------------ C30
\* api.py: job_status_handler for an authorized request: 404 if the id is
\* unknown, else the row's status, attempts, last_error and payload["result"]
\* (None when the payload has no such key)
job_status_handler(store, job_id) ==
    LET job == get_job(store, job_id)
    IN IF job = NoRow THEN [status_code |-> 404, result |-> Null]
       ELSE [status_code |-> 200, job_id |-> job_id, type |-> job.type,
             status |-> job.status, attempts |-> job.attempts,
             max_attempts |-> job.max_attempts, last_error |-> job.last_error,
             result |-> IF "result" \in DOMAIN job.payload
                        THEN Some(job.payload.result) ELSE Null]

\* C30: after a handler returned a value r, the job row is succeeded with
\* payload.result = r while args and kwargs are kept, so a later GET
\* /jobs/{id} returns result = r.
C30_ResultStored ==
    \A id \in DOMAIN jobs :
        (Exists(jobs, id) /\ jobs[id].status = SUCCEEDED) =>
            /\ "result" \in DOMAIN jobs[id].payload
            /\ jobs[id].payload.result = HandlerResult(jobs[id].type)
            /\ jobs[id].payload.args = CallPayload(jobs[id].type).args
            /\ jobs[id].payload.kwargs = CallPayload(jobs[id].type).kwargs
            /\ job_status_handler(jobs, id).result = Some(HandlerResult(jobs[id].type))

\* what the row holds instead: the payload of enqueue_job, untouched, and a
\* GET /jobs/{id} whose result is null
C30_PayloadUntouched ==
    \A id \in DOMAIN jobs :
        Exists(jobs, id) =>
            /\ jobs[id].payload = CallPayload(jobs[id].type)
            /\ job_status_handler(jobs, id).result = Null

\* ------------------------------------------------------------------ C31
\* the bot alone: commands of two Discord users, each command's audit write
\* in its own background task and worker thread
NextDiscord ==
    \/ LogCommand
    \/ PostEvent
    \/ TaskDone

SpecDiscord == InitAudit /\ [][NextDiscord]_vars

\* this step inserts the event of the j-th command into audit_events
Inserts(j) ==
    /\ audit_tasks[j].pc = "queued"
    /\ _post_event(j, "201")
    /\ audit_events' # audit_events

\* C31: two audit events emitted in the order e1 then e2 by one component
\* for the same actor are inserted in that order: when the event of command
\* j is inserted, no event that the same actor's later command k emitted is
\* in audit_events yet.
C31_InsertedInEmissionOrder ==
    [][\A j \in 1..MaxCommands, k \in 1..MaxCommands :
          (/\ j < k
           /\ audit_tasks[k].actor = audit_tasks[j].actor
           /\ Inserts(j)) =>
              ~BagIn(DiscordEvent(k, audit_tasks[k].actor), audit_events)
      ]_vars

\* what does hold: an event is inserted only after its own log_command call
C31_InsertedAfterEmitted ==
    \A k \in 1..MaxCommands :
        BagIn(DiscordEvent(k, audit_tasks[k].actor), audit_events) =>
            audit_tasks[k].pc \in {"finished", "collected"}

\* ------------------------------------------------------------------ C32
\* C32: the stored attempts of a job never decreases: every step of every
\* runner, one that finishes late with a stale snapshot of the row included,
\* leaves attempts at least as large as it found it.
C32_AttemptsNeverDecrease ==
    [][\A id \in JobIds :
          (Exists(jobs, id) /\ Exists(jobs', id)) =>
              jobs'[id].attempts >= jobs[id].attempts
      ]_vars

\* ------------------------------------------------------------------ C33
\* the row _run_job finds for the delivered message m is absent, terminal,
\* or running under another worker's name
SkipCase(r, m) ==
    LET job == get_job(jobs, m.job_id)
    IN \/ job = NoRow
       \/ job.status \in {SUCCEEDED, DEAD, CANCELED}
       \/ job.status = RUNNING /\ job.locked_by # Some(worker_name[r])

C33_LockedByOther ==
    /\ Exists(jobs, 1)
    /\ jobs[1].status = RUNNING
    /\ jobs[1].locked_by = Some(worker_name["r1"])
    /\ worker_name["r2"] # worker_name["r1"]
    /\ run["r1"].pc = "handler"
    /\ run["r2"].pc = "idle"
    /\ broker = EmptyBag
    /\ redelivered = 1

\* ------------------------------------------------------------------ C34
\* C34: no handler invocation for a job starts before the job's run_after
\* instant: mark_job_running claims a job only when its run_after is unset
\* or has been reached, also when its id is delivered early or more than once.
C34_NotClaimedBeforeRunAfter ==
    [][\A r \in Runners :
          (/\ run[r].pc = "claim"
           /\ Exists(jobs, run[r].job_id)
           /\ RunJobClaim(r)) =>
              \/ jobs[run[r].job_id].run_after = Null
              \/ Val(jobs[run[r].job_id].run_after) <= now
      ]_vars

\* ------------------------------------------- termination under fair scheduling
\* the clock, observed where the worker depends on it: time passes while a
\* sent message waits for its eta
Elapse ==
    /\ \E m \in BagToSet(broker) : ~Deliverable(m, now)
    /\ now' = now + 1
    /\ UNCHANGED <<authvars, req, ticks, settings, worker_name, jobs, next_id, broker, redelivered, enq,
                   run, dispatches, trace, retries, tracing, calc>>

\* enqueue_job calls for a registered job type, from two callers
SubmitOnce ==
    \E c \in {"c1", "c2"}, max_attempts \in MaxAttemptsChoices :
        EnqueueCreate(c, "process_webhook_event", Null, max_attempts, Null)

InitOnce ==
    /\ InitCommon
    /\ tracing = TRUE
    /\ settings \in SettingsChoices
    /\ worker_name = [r \in Runners |-> "integrations-worker"]

\* a broker that delivers every message exactly once, handlers that return or
\* raise
NextOnce ==
    \/ SubmitOnce
    \/ Dispatch
    \/ LoadOnce
    \/ Claim
    \/ Return
    \/ Raise
    \/ Resend
    \/ Elapse

\* enqueue_job runs on to its dispatch, the broker delivers what it holds, a
\* worker thread runs _run_job to its end, the handler returns or raises, and
\* time passes
FairOnce ==
    /\ WF_vars(Dispatch)
    /\ WF_vars(LoadOnce)
    /\ WF_vars(Claim)
    /\ WF_vars(Return \/ Raise)
    /\ WF_vars(Resend)
    /\ WF_vars(Elapse)

SpecOnce == InitOnce /\ [][NextOnce]_vars /\ FairOnce

Settled(id) == Exists(jobs, id) /\ jobs[id].status \in {SUCCEEDED, DEAD}

\* C35: with a broker that delivers every dispatched id exactly once and
\* handlers that always return or raise, every created job of a registered
\* type eventually reaches succeeded or dead, after at most max_attempts
\* handler invocations.
C35_EveryJobSettles ==
    /\ \A id \in JobIds : Exists(jobs, id) ~> Settled(id)
    /\ [](\A id \in JobIds : Exists(jobs, id) => Invocations(id) <= jobs[id].max_attempts)

\* a job that used every attempt and is dead, next to one that succeeded after
\* a retry
C35_Witness ==
    \E id, other \in JobIds :
        /\ Settled(id) /\ jobs[id].status = DEAD
        /\ Invocations(id) = jobs[id].max_attempts
        /\ jobs[id].max_attempts = 3
        /\ Settled(other) /\ jobs[other].status = SUCCEEDED
        /\ Invocations(other) = 2

\* ------------------------------------------------- scheduler loop at shutdown
\* enqueue_job has returned or raised
CallOver(c) == enq[c].pc \in {"done", "raised"}
Cancelled(c) == req[c].pc \in {"cancelled", "cancelled in flight"}

\* api.py: _lifespan after the yield, `task.cancel()` and `await task`:
\* CancelledError is raised in _crm_sync_scheduler at the await it is
\* suspended at (asyncio.sleep, or asyncio.to_thread(enqueue_job, ...)); it is
\* no Exception, so `except Exception` does not catch it and the loop is left.
\* A thread that has taken up enqueue_job is not interrupted.
Shutdown(c) ==
    /\ ~Cancelled(c)
    /\ req' = [req EXCEPT ![c].pc = IF req[c].pc = "enqueue" /\ ~CallOver(c)
                                    THEN "cancelled in flight" ELSE "cancelled",
                          ![c].handler = "_crm_sync_scheduler"]
    /\ UNCHANGED <<authvars, now, settings, worker_name, jobs, next_id, broker, redelivered,
                   enq, run, dispatches, trace, retries, tracing, calc, ticks>>

\* the executor thread of a call that was in flight at the cancellation runs
\* enqueue_job: create_job_record
ThreadEnqueue(c) ==
    /\ req[c].pc = "cancelled in flight"
    /\ EnqueueCreate(c, HandlerFn(req[c].handler), Head(req[c].keys), Null, Null)

Cancel_task == \E c \in SchedulerLoops : Shutdown(c)
ThreadRuns == \E c \in SchedulerLoops : ThreadEnqueue(c)

\* scheduler loops, the broker refusing a send at will, and the shutdown of
\* each API process
NextShutdown ==
    \/ SchedulerTick
    \/ CallEnqueue
    \/ Dispatch
    \/ DispatchFails
    \/ Returns
    \/ Raises
    \/ Advance
    \/ Cancel_task
    \/ ThreadRuns

SpecShutdown == InitSched /\ [][NextShutdown]_vars

InBroker(id) == \E m \in BagToSet(broker) : m.job_id = id

\* C36: after shutdown cancels the scheduler loop, the loop starts no new
\* enqueue call; an enqueue call already in flight leaves either no job row or
\* a complete job (row created and dispatched), never a row created without
\* its dispatch.
C36_NoHalfWrittenJob ==
    /\ [][\A c \in SchedulerLoops :
            Cancelled(c) => /\ Cancelled(c)'
                            /\ req'[c].keys = req[c].keys
                            /\ req'[c].at = req[c].at]_vars
    /\ [](\A c \in SchedulerLoops :
            (req[c].pc = "cancelled in flight" /\ CallOver(c) /\ enq[c].created)
                => InBroker(enq[c].id))

\* the first half of C36 on its own: a cancelled loop stays cancelled and
\* reads no clock and computes no key again
NoCallAfterCancel ==
    [][\A c \in SchedulerLoops :
          Cancelled(c) => /\ Cancelled(c)'
                          /\ req'[c].keys = req[c].keys
                          /\ req'[c].at = req[c].at]_vars

\* ------------------------------------------------ row committed before dispatch
\* a message of job id is with the broker or with a worker thread
Dispatched(id) ==
    \/ \E m \in BagToSet(broker) : m.job_id = id
    \/ \E r \in Runners : run[r].pc # "idle" /\ run[r].job_id = id

\* _run_job's first branch: get_job returned None ("Skipping: job not found")
NotFoundSkip(r, m, again) ==
    /\ RunJobLoad(r, m, again)
    /\ get_job(jobs, m.job_id) = NoRow

\* C37: enqueue_job commits the job row before it calls the broker and holds
\* no open database transaction during the broker call; hence whenever a
\* worker receives a job id that enqueue_job dispatched, get_job finds the row
\* (never the 'not found' skip).
C37_RowCommittedBeforeDispatch ==
    /\ [](\A c \in Callers : enq[c].pc = "dispatch" => Exists(jobs, enq[c].id))
    /\ [](\A id \in JobIds : Dispatched(id) => Exists(jobs, id))
    /\ [][\A r \in Runners, m \in BagToSet(broker), again \in BOOLEAN :
            ~NotFoundSkip(r, m, again)]_vars

\* a worker thread has loaded the row of a dispatched id and is about to
\* claim it
C37_Witness ==
    \E r \in Runners :
        /\ run[r].pc = "claim"
        /\ dispatches[run[r].job_id] = 1
        /\ Exists(jobs, run[r].job_id)
        /\ jobs[run[r].job_id].status = QUEUED
        /\ enq["c1"].pc = "done"

\* ------------------------------------------------- enqueued types and registry
\* C38: every job type that the ingest API or the scheduler can enqueue (the
\* fn.__name__ passed to enqueue_job) is a key of the worker's handler registry
\* _HANDLERS, so no job created through the API is of an unknown type when a
\* worker loads it.
C38_EnqueuedTypesRegistered ==
    \A id \in JobIds : Exists(jobs, id) => jobs[id].type \in _HANDLERS

\* --------------------------------------------------- grant kept on a denial
\* the handlers that check a bind
BindHandlers == {"auth_callback_handler", "auth_discord_link_redirect_handler"}

\* this step answers client c 403 from a bind check
BindDenied(c) ==
    /\ reply'.client = c
    /\ reply'.handler \in BindHandlers
    /\ reply'.status = 403

\* every check of the bind passed for the request client c has in hand: the
\* callback is past its checks and holds the grant, or the session of the
\* redirect's cookie is an admin whose email is linked to the grant's user
BindChecksPassed(c) ==
    \/ /\ web[c].handler = "auth_callback_handler"
       /\ web[c].pc = "session"
       /\ web[c].grant # Null
       /\ BindRefusal(Val(web[c].claims), Val(web[c].grant)) = ""
    \/ /\ web[c].handler = "auth_discord_link_redirect_handler"
       /\ web[c].pc = "link_session"
       /\ LET session == _current_session(sessions, web[c].cookie, now).session
          IN /\ session # Null
             /\ Val(session).is_admin
             /\ Val(session).email # Null
             /\ is_admin_email_for_discord_user(Val(Val(session).email),
                                                Val(web[c].grant).discord_user_id)

\* C39: a failed bind does not consume the deep-link grant: on every 403
\* denial path of the login callback and of the deep-link redirect handler the
\* grant is left unchanged in the store, and it is deleted only on the path
\* where all bind checks passed.
C39_DenialKeepsGrant ==
    [][/\ \A c \in Browsers : BindDenied(c) => discord_links' = discord_links
       /\ \A t \in LinkTokens :
             (discord_links[t] # NoRow /\ discord_links'[t] = NoRow) =>
                 \E c \in Browsers :
                     /\ web[c].token = Some(t)
                     /\ BindChecksPassed(c)
                     /\ reply'.client = c
                     /\ reply'.token = Some(t)
      ]_vars

\* the deep-link redirect refused a signed-in admin whose email is not linked
\* to the grant's Discord user, and the grant still resolves
C39_Witness ==
    /\ reply.handler = "auth_discord_link_redirect_handler"
    /\ reply.status = 403
    /\ reply.detail = "oidc_user_not_linked_to_discord_admin"
    /\ reply.token = Some(1)
    /\ get_discord_link(discord_links, 1, now) # Null

====
